---- MODULE Spec2Model ----
(***************************************************************************)
(* A model of the local orchestration account kit                         *)
(* (packages/orchestration/src/exos/local-chain-facade.js, which also     *)
(* holds local-orchestration-account.js and the send-anywhere contract).  *)
(*                                                                         *)
(* A call of a holder method is a record of `calls`; its `pc` is the      *)
(* place where the call is suspended:                                      *)
(*   "lookups" transfer waits for the connection and the timeout,         *)
(*   "packetTools" the call has reached the packet tools,                  *)
(*   "ack"     the packet is out and its acknowledgement is awaited,       *)
(*   "bridge"  the LocalChainAccount call is in flight,                    *)
(*   "turn"    the bridge promise has settled and the watcher is queued,   *)
(*   "timer"   a wakeAt is in flight,                                      *)
(*   "woken"   the wake has settled and returnVoidWatcher is queued,       *)
(*   "await", "storagePath", "when"  an async function is suspended at an  *)
(*             await (getPublicTopics, asContinuingOffer),                 *)
(*   "offer"   an offer handler's watch waits for the method's vow,        *)
(*   "localchain", "address", "storage"  makeAccount waits for the         *)
(*             account, its address, the child node,                       *)
(*   "names"   getVBankAssetInfo waits for agoricNames,                    *)
(*   "match"   matchFirstPacket is registered and waits for an event,      *)
(*   "lost"    the continuation did not survive a restart,                 *)
(*   "done"    the returned vow has settled.                               *)
(* A sendIt offer of the contract is a record of `offers`; its `pc` names   *)
(* the await its function is suspended at ("findBrandInVBank", "getChain", *)
(* "getChain agoric", "makeAccount", "getChainInfo", "withdrawFromSeat",    *)
(* "payment", "deposit", "transfer"). An addChain call is a record of       *)
(* `adds`, suspended at "getChainInfo" or "done".                           *)
(* The collaborators that are not part of these files (the vow tools, the  *)
(* LocalChainAccount behind the bridge, the timer service, the chain hub   *)
(* and the packet tools) are modelled from the specification's text.       *)
(***************************************************************************)
EXTENDS Integers, Sequences, FiniteSets, TLC

\* ------------------------------------------------------------------ bounds
MaxCalls == 2       \* holder method calls per behaviour
MaxBankCalls == 3   \* deposit and withdraw calls per behaviour
MaxAccountCalls == 1 \* calls per behaviour when all seven bridge methods are offered
MaxValue == 2       \* largest amount deposited or withdrawn
MaxSeconds == 1     \* largest completionTime.seconds the bridge reports
MaxTime == 4        \* the clock stops advancing here
MaxTransferCalls == 1 \* holder method calls per behaviour that transfers
MaxSeq == 2         \* largest sequence number an inbound event carries
MaxEvents == 2      \* inbound events per behaviour
MaxMonitorCalls == 2 \* holder method calls per behaviour that monitors transfers
MaxTapEvents == 3   \* inbound events per behaviour that monitors transfers
MaxSettleCalls == 1 \* calls per behaviour when every method is offered
MaxFacadeCalls == 2 \* calls of the chain facade per behaviour
MaxAssetCalls == 3  \* getVBankAssetInfo calls per behaviour
MaxTopicCalls == 3  \* calls per behaviour that asks for the public topics
MaxStubCalls == 3   \* calls per behaviour that tries the unimplemented methods

\* maxClockSkew is imported from ../utils/cosmos.js (ten minutes there); the
\* model keeps it a positive number of clock ticks.
maxClockSkew == 2

\* The default timeout of a transfer, "currently 5 minutes", in seconds. The
\* time helper answers in nanoseconds; the model keeps seconds, one unit for
\* every timestamp of a transfer.
FiveMinutes == 300

VARIABLES
    state,      \* the kit's State: account, address, topicKit, packetTools
    calls,      \* the holder method calls made so far, in call order
    bridgeLog,  \* what the LocalChainAccount has been asked, in order
    balance,    \* the bank balance behind the LocalChainAccount
    now,        \* the timer service's clock
    wakeLog,    \* the wakeAt requests the timer service has received
    hubLog,     \* the connection lookups the chain hub has received
    timeQueries,\* the calls that asked the time service for the current time
    packets,    \* the packet tools' OutboundPacket records, in send order
    nextSeq,    \* the next sequence number of each channel
    taps,       \* the tap registrations, in registration order
    inbound,    \* how many inbound events the bridge has delivered
    F,          \* a vow of the vow tools, watched by the registrations
    registrations, \* the watcher registrations on F, in the order of attachment
    facade,     \* the chain facade's State: localChainInfo, vbankAssets
    kits,       \* the account kits the facade has made, in the order of making
    storageLog, \* the makeChildNode requests the storage node has received
    incarnation, \* how often the process has restarted: none, once, more
    namesLog,   \* the calls that issued agoricNames.lookup('vbankAsset'), in order
    contractAccount, \* send-anywhere's heap variable: 0 while it is undefined
    offers,     \* the sendIt offer of each seat: where its function stands
    accountLog, \* the seats whose offer called agoricChain.makeAccount(), in order
    nonce,      \* send-anywhere's addChain counter
    adds,       \* the addChain calls made so far, in call order
    chainHub    \* what addChain has registered: chains and connections

\* What the transfer methods use besides the bridge and the timer.
\* What the chain facade makes, and what only the vow tools' own steps change.
\* What the send-anywhere contract keeps.
contract == <<contractAccount, offers, accountLog, nonce, adds, chainHub>>
made == <<facade, kits, storageLog, namesLog, contract>>
rest == <<F, registrations, made, incarnation>>
net == <<hubLog, timeQueries, packets, nextSeq, taps, inbound, rest>>

vars == <<state, calls, bridgeLog, balance, now, wakeLog, net>>

\* ------------------------------------------------------------------ values
Undefined == [undefined |-> TRUE]
Pending == [status |-> "pending"]
Fulfilled(v) == [status |-> "fulfilled", value |-> v]
Rejected(r) == [status |-> "rejected", reason |-> r]

IsFulfilled(o) == o.status = "fulfilled"
IsRejected(o) == o.status = "rejected"
IsSettled(o) == o.status # "pending"

\* A count kept as none, one, more.
Counted(n) == IF n < 2 THEN n + 1 ELSE n

Validators == {"agoric1validator1"}
Denoms == {"ubld", "uist"}
Brands == {"BLD"}
Values == 1..MaxValue
\* An AmountArg is a DenomAmount {denom, value} or an ERTP Amount {brand, value}.
DenomAmounts == [denom : Denoms, value : Values]
ErtpAmounts == [brand : Brands, value : Values]
AmountArgs == DenomAmounts \cup ErtpAmounts
\* delegate and undelegate only copy the amount's value into their message.
StakeAmounts == [brand : Brands, value : {10}]
\* What send and sendAll are called with: two denom amounts and an ERTP one.
SendAmounts ==
    {[denom |-> "ubld", value |-> 10], [denom |-> "uist", value |-> 2],
     [brand |-> "BLD", value |-> 10]}
SendLists == UNION {[1..k -> SendAmounts] : k \in 0..2}
ToAccounts == {[value |-> "agoric1EOAAccAddress", chainId |-> "agoriclocal",
                encoding |-> "bech32"]}

\* String(n) of a bigint: its decimal digits, most significant first.
RECURSIVE Digits(_)
Digits(n) == IF n < 10 THEN <<n>> ELSE Append(Digits(n \div 10), n % 10)
String(n) == Digits(n)

\* ------------------------------------------------- the bridge's replies
BridgeErrors == {"simulated error"}
InsufficientFunds == "insufficient funds"
\* One result of an executeTx reply. Only a MsgUndelegateResponse carries a
\* completionTime {seconds, nanos}.
UndelegateResults ==
    [type : {"MsgUndelegateResponse"},
     completionTime : [seconds : 1..MaxSeconds, nanos : {0, 999}]]

\* The bridge answers one message with one result; the model also lets it
\* answer with none or with two.
ReplyLengths == {0, 1, 2}
Lists(S) == UNION {[1..k -> S] : k \in ReplyLengths}

Channels == {"channel-1", "channel-2"}

\* Where a transfer may be sent: two chains the chain hub knows, one it does not.
Destinations ==
    {[chainId |-> c[1], value |-> c[2], encoding |-> "bech32"] :
        c \in {<<"cosmoshub-4", "cosmos1pleab">>, <<"osmosis-1", "osmo1pleab">>,
                <<"fakenet", "fakenet1pleab">>}}
TransferAmounts == {[denom |-> "ubld", value |-> 100], [brand |-> "BLD", value |-> 100]}
\* IBCMsgTransferOptions; Undefined is a call without opts.
TransferOpts ==
    {Undefined,
     [timeoutHeight |-> [revisionHeight |-> 100, revisionNumber |-> 1]],
     [timeoutTimestamp |-> 7],
     [memo |-> "hello"]}
\* What the bridge delivers: {receiverAddress, channelId, sequence, payload},
\* the payload being an acknowledgement or transfer ("none"), a timeout raised
\* by the local stack, or an error reported by the remote chain.
Receivers == {"agoric1acct", "cosmos1pleab"}
Markers == {"none", "timeout", "error"}
Events == [receiverAddress : Receivers, channelId : Channels,
           sequence : 1..MaxSeq, marker : Markers]
TapNames == {"tap"}

\* A slip the claims must notice: only a timestamp spares the time helper.
transfer_timeoutTimestamp_heightIgnored(opts) ==
    IF "timeoutTimestamp" \in DOMAIN opts THEN [status |-> "fulfilled", value |-> opts.timeoutTimestamp]
    ELSE [status |-> "pending"]

\* Without a timeout option the time helper is asked, with one it is not.
TimeoutOpts == {o \in TransferOpts : o = Undefined \/ "timeoutHeight" \in DOMAIN o}

\* opts?.field is neither undefined nor null
Has(opts, field) == field \in DOMAIN opts

\* ------------------------------------------ send-anywhere's offers
\* A seat makes one offer: zcf hands sendIt the seat and the offerArgs.
Seats == {"seat1", "seat2"}
\* The chains orch.getChain knows by name, and a name it does not know.
ChainNames == {"cosmoshub", "osmosis", "mars"}
ChainIdOf(chainName) ==
    IF chainName = "cosmoshub" THEN "cosmoshub-4"
    ELSE IF chainName = "osmosis" THEN "osmosis-1" ELSE "none"
\* offerArgs: {chainName, destAddr}, and one without a destAddr.
OfferArgs ==
    [chainName : ChainNames, destAddr : {"cosmos1pleab"}] \cup {[chainName |-> "cosmoshub"]}
\* give: one keyword with one amount (SingleAmountRecord).
Gives == {[kw |-> "Send", amt |-> [brand |-> "BLD", value |-> 100]]}
\* The denom the vbank holds for a brand.
VBankDenom(brand) == IF brand = "BLD" THEN "ubld" ELSE "none"
\* A seat that has made no offer yet.
NoOffer ==
    [pc |-> "none", offerArgs |-> Undefined, give |-> Undefined, denom |-> "none",
     chainId |-> "none", into |-> 0, from |-> 0, depositCall |-> 0, transferCall |-> 0,
     result |-> Pending]

\* ------------------------------------------------------------ the kit
TheAddress == [value |-> "agoric1acct", encoding |-> "bech32", chainId |-> "agoriclocal"]

\* The chain info the facade is made with.
LocalChainInfo == [chainId |-> "agoriclocal", bech32Prefix |-> "agoric"]
\* The addresses localchain gives a new account.
AccountAddresses == {"agoric1fakeLCAAddress", "agoric1fakeLCAAddress1"}

KitInit ==
    [account |-> "lca", address |-> TheAddress, topicKit |-> "topicKit",
     packetTools |-> "packetTools"]

Init ==
    /\ state = KitInit
    /\ calls = <<>>
    /\ bridgeLog = <<>>
    /\ balance = 0
    /\ now = 0
    /\ wakeLog = <<>>
    /\ hubLog = <<>>
    /\ timeQueries = {}
    /\ packets = <<>>
    /\ nextSeq = [c \in Channels |-> 1]
    /\ taps = <<>>
    /\ inbound = 0
    /\ F = Pending
    /\ registrations = <<>>
    /\ facade = [localChainInfo |-> LocalChainInfo, vbankAssets |-> Undefined]
    /\ kits = <<>>
    /\ storageLog = <<>>
    /\ incarnation = 0
    /\ namesLog = <<>>
    /\ contractAccount = 0
    /\ offers = [s \in Seats |-> NoOffer]
    /\ accountLog = <<>>
    /\ nonce = 0
    /\ adds = <<>>
    /\ chainHub = [chains |-> {}, connections |-> {}]

NewCall(op, arg, watcher) ==
    [op |-> op, arg |-> arg, pc |-> "bridge", watcher |-> watcher,
     reply |-> Pending, result |-> Pending, wakeAt |-> 0]

\* A call that settled in the turn it was made in (asVow caught a throw).
FailedCall(op, arg, reason) ==
    [op |-> op, arg |-> arg, pc |-> "done", watcher |-> "none",
     reply |-> Pending, result |-> Rejected(reason), wakeAt |-> 0]

\* A call that threw to its caller: there is no vow.
Threw(message) == [status |-> "threw", message |-> message]
ThrownCall(op, arg, message) ==
    [op |-> op, arg |-> arg, pc |-> "done", watcher |-> "none",
     reply |-> Pending, result |-> Threw(message), wakeAt |-> 0]

NextId == Len(calls) + 1
IsCall(i, op) == i \in 1..Len(calls) /\ calls[i].op = op

\* E(lca).<method>(arg): the request reaches the bridge in call order.
AskBridge(method, arg) ==
    bridgeLog' = Append(bridgeLog, [method |-> method, arg |-> arg, call |-> NextId])

\* ------------------------------------------------------- holder methods
MsgDelegate(validatorAddress, ertpAmount) ==
    [type |-> "/cosmos.staking.v1beta1.MsgDelegate",
     amount |-> [amount |-> String(ertpAmount.value), denom |-> "ubld"],
     validatorAddress |-> validatorAddress,
     delegatorAddress |-> state.address.value]

delegate(validatorAddress, ertpAmount) ==
    /\ AskBridge("executeTx", <<MsgDelegate(validatorAddress, ertpAmount)>>)
    /\ calls' = Append(calls, NewCall("delegate", <<ertpAmount>>, "extractFirstResultWatcher"))
    /\ UNCHANGED <<net, state, balance, now, wakeLog>>

MsgUndelegate(validatorAddress, ertpAmount) ==
    [type |-> "/cosmos.staking.v1beta1.MsgUndelegate",
     amount |-> [amount |-> String(ertpAmount.value), denom |-> "ubld"],
     validatorAddress |-> validatorAddress,
     delegatorAddress |-> state.address.value]

\* A slip the claims must notice: the wake is requested with the message,
\* before the bridge has answered.
undelegate_wakesFirst(validatorAddress, ertpAmount) ==
    /\ AskBridge("executeTx", <<MsgUndelegate(validatorAddress, ertpAmount)>>)
    /\ calls' = Append(calls, NewCall("undelegate", <<ertpAmount>>, "undelegateWatcher"))
    /\ wakeLog' = Append(wakeLog, [call |-> NextId, at |-> maxClockSkew])
    /\ UNCHANGED <<net, state, balance, now>>

undelegate(validatorAddress, ertpAmount) ==
    /\ AskBridge("executeTx", <<MsgUndelegate(validatorAddress, ertpAmount)>>)
    /\ calls' = Append(calls, NewCall("undelegate", <<ertpAmount>>, "undelegateWatcher"))
    /\ UNCHANGED <<net, state, balance, now, wakeLog>>

\* A method that ran to its end, and one that threw.
Return(v) == [threw |-> FALSE, value |-> v]
Throw(m) == [threw |-> TRUE, message |-> m]

deposit(payment) ==
    /\ AskBridge("deposit", payment)
    /\ calls' = Append(calls, NewCall("deposit", <<payment>>, "returnVoidWatcher"))
    /\ UNCHANGED <<net, state, balance, now, wakeLog>>

\* A slip the claims must notice: withdraw watched like deposit, so that the
\* payment is dropped.
withdraw_returnVoid(amount) ==
    /\ AskBridge("withdraw", amount)
    /\ calls' = Append(calls, NewCall("withdraw", <<amount>>, "returnVoidWatcher"))
    /\ UNCHANGED <<net, state, balance, now, wakeLog>>

withdraw(amount) ==
    /\ AskBridge("withdraw", amount)
    /\ calls' = Append(calls, NewCall("withdraw", <<amount>>, "none"))
    /\ UNCHANGED <<net, state, balance, now, wakeLog>>

executeTx(messages) ==
    /\ AskBridge("executeTx", messages)
    /\ calls' = Append(calls, NewCall("executeTx", <<>>, "none"))
    /\ UNCHANGED <<net, state, balance, now, wakeLog>>

getAddress == state.address

\* A slip the claims must notice: a brand taken for a denom instead of
\* being refused.
amountToCoin_brandAsDenom(amount) ==
    IF "denom" \notin DOMAIN amount
    THEN Return([denom |-> amount.brand, amount |-> String(amount.value)])
    ELSE Return([denom |-> amount.denom, amount |-> String(amount.value)])

amountToCoin(amount) ==
    IF "denom" \notin DOMAIN amount
    THEN Throw("Brands not currently supported.")
    ELSE Return([denom |-> amount.denom, amount |-> String(amount.value)])

\* A slip the claims must notice: the recipient is named as the sender too.
MsgSend_fromRecipient(coins, toAccount) ==
    [type |-> "/cosmos.bank.v1beta1.MsgSend",
     amount |-> coins,
     toAddress |-> toAccount.value,
     fromAddress |-> toAccount.value]

MsgSend(coins, toAccount) ==
    [type |-> "/cosmos.bank.v1beta1.MsgSend",
     amount |-> coins,
     toAddress |-> toAccount.value,
     fromAddress |-> state.address.value]

\* amounts.map(a => helper.amountToCoin(a)): the coins in input order, or the
\* first throw.
MapAmountToCoin(amounts) ==
    LET rs == [k \in 1..Len(amounts) |-> amountToCoin(amounts[k])]
        bad == {k \in 1..Len(amounts) : rs[k].threw}
    IN IF bad = {}
       THEN Return([k \in 1..Len(amounts) |-> rs[k].value])
       ELSE rs[CHOOSE k \in bad : \A j \in bad : k <= j]

\* asVow(() => watch(E(account).executeTx([MsgSend]), returnVoidWatcher)):
\* a throw while the message is built rejects the vow in the same turn.
SendCoins(op, toAccount, amounts, coins) ==
    /\ IF coins.threw
       THEN /\ calls' = Append(calls, FailedCall(op, amounts, coins.message))
            /\ UNCHANGED bridgeLog
       ELSE /\ AskBridge("executeTx", <<MsgSend(coins.value, toAccount)>>)
            /\ calls' = Append(calls, NewCall(op, amounts, "returnVoidWatcher"))
    /\ UNCHANGED <<net, state, balance, now, wakeLog>>

send(toAccount, amount) ==
    SendCoins("send", toAccount, <<amount>>, MapAmountToCoin(<<amount>>))

sendAll(toAccount, amounts) ==
    SendCoins("sendAll", toAccount, amounts, MapAmountToCoin(amounts))

\* transfer's first statement: ERTP amounts are refused before anything else.
\* A slip the claims must notice: the check is missing.
transfer_brandCheck_missing(amount) == Return(amount)

transfer_brandCheck(amount) ==
    IF "brand" \in DOMAIN amount
    THEN Throw("ERTP Amounts not yet supported")
    ELSE Return(amount)

\* A slip the claims must notice: the two chain ids in the other order.
transfer_lookup_swapped(destination) ==
    [src |-> destination.chainId, dst |-> state.address.chainId]

\* chainHub.getConnectionInfo(this.state.address.chainId, destination.chainId)
transfer_lookup(destination) ==
    [src |-> state.address.chainId, dst |-> destination.chainId]

\* opts?.timeoutTimestamp ?? (opts?.timeoutHeight ? 0n : E(timestampHelper)...):
\* Pending stands for the promise of the time helper.
transfer_timeoutTimestamp(opts) ==
    IF Has(opts, "timeoutTimestamp") THEN Fulfilled(opts.timeoutTimestamp)
    ELSE IF Has(opts, "timeoutHeight") THEN Fulfilled(0)
    ELSE Pending

\* A transfer call waits in "lookups" for allVows([connectionInfoV, timeout]).
TransferCall(amount, destination, opts) ==
    [op |-> "transfer", arg |-> <<amount, destination, opts>>, pc |-> "lookups",
     watcher |-> "transferWatcher", reply |-> Pending, result |-> Pending,
     wakeAt |-> 0, conn |-> Pending, ts |-> transfer_timeoutTimestamp(opts),
     msg |-> Undefined, dispatch |-> Pending]

\* What holder.transfer does to the calls, the chain hub and the time helper.
holder_transfer(amount, destination, opts) ==
    IF transfer_brandCheck(amount).threw
    THEN /\ calls' = Append(calls, FailedCall("transfer", <<amount, destination, opts>>,
                                              transfer_brandCheck(amount).message))
         /\ UNCHANGED <<hubLog, timeQueries>>
    ELSE /\ hubLog' = Append(hubLog, [call |-> NextId,
                                      src |-> transfer_lookup(destination).src,
                                      dst |-> transfer_lookup(destination).dst])
         /\ timeQueries' = IF transfer_timeoutTimestamp(opts) = Pending
                           THEN timeQueries \cup {NextId} ELSE timeQueries
         /\ calls' = Append(calls, TransferCall(amount, destination, opts))

transfer(amount, destination, opts) ==
    /\ holder_transfer(amount, destination, opts)
    /\ UNCHANGED <<rest, state, bridgeLog, balance, now, wakeLog, packets, nextSeq, taps, inbound>>

\* ------------------------------------- getPublicTopics, asContinuingOffer
\* PUBLIC_TOPICS.account[0]
TopicDescription == "Account holder status"
\* What the recorder of the kit's topic answers getStoragePath() with.
StoragePath == "orchtest.agoric1acct"

\* A slip the claims must notice: the topics are read before the call returns.
getPublicTopics_sameTurn ==
    /\ calls' = Append(calls, [NewCall("getPublicTopics", <<>>, "none") EXCEPT
                                  !.pc = "done",
                                  !.result = Fulfilled([account |->
                                      [description |-> TopicDescription,
                                       subscriber |-> state.topicKit,
                                       storagePath |-> StoragePath]])])
    /\ UNCHANGED <<net, state, bridgeLog, balance, now, wakeLog>>

\* getPublicTopics(): asVow(async () => { await null; ... }). The function
\* runs up to its `await null` and the call returns the pending vow.
getPublicTopics ==
    /\ calls' = Append(calls, [NewCall("getPublicTopics", <<>>, "none") EXCEPT
                                  !.pc = "await"])
    /\ UNCHANGED <<net, state, bridgeLog, balance, now, wakeLog>>

\* asContinuingOffer(): asVow(async () => { await null; ... })
asContinuingOffer ==
    /\ calls' = Append(calls, [NewCall("asContinuingOffer", <<>>, "none") EXCEPT
                                  !.pc = "await"])
    /\ UNCHANGED <<net, state, bridgeLog, balance, now, wakeLog>>

\* --------------------------------------------------------- getBalance
BalanceArgs == {[denom |-> "ubld"], [brand |-> "BLD"]}

\* typeof denomArg === 'string' ? [null, denomArg] : [denomArg, 'FIXME']
getBalance_args(denomArg) ==
    IF Has(denomArg, "denom")
    THEN [brand |-> "null", denom |-> denomArg.denom]
    ELSE [brand |-> denomArg.brand, denom |-> "FIXME"]

\* watch(E(this.state.account).getBalance(brand), getBalanceWatcher, denom)
getBalance(denomArg) ==
    /\ AskBridge("getBalance", getBalance_args(denomArg).brand)
    /\ calls' = Append(calls, [op |-> "getBalance", arg |-> <<denomArg>>, pc |-> "bridge",
                               watcher |-> "getBalanceWatcher", reply |-> Pending,
                               result |-> Pending, wakeAt |-> 0,
                               ctx |-> getBalance_args(denomArg).denom])
    /\ UNCHANGED <<net, state, balance, now, wakeLog>>

\* ------------------------------------------------- the invitation makers
\* A slip the claims must notice: the seat is exited after the method has
\* been called.
OfferCall_exitLast(maker, inner) ==
    [op |-> "offer", arg |-> <<maker>>, pc |-> "offer", watcher |-> "none",
     reply |-> Pending, result |-> Pending, wakeAt |-> inner,
     seat |-> [exited |-> TRUE, before |-> Len(bridgeLog') + 1]]

\* What an offer handler does: seat.exit() first, `before` being the place in
\* the bridge's log of the first request made after it, and then
\* watch(this.facets.holder.<method>(...)), the vow it returns.
OfferCall(maker, inner) ==
    [op |-> "offer", arg |-> <<maker>>, pc |-> "offer", watcher |-> "none",
     reply |-> Pending, result |-> Pending, wakeAt |-> inner,
     seat |-> [exited |-> TRUE, before |-> Len(bridgeLog) + 1]]

\* An offer is made with the invitation of a maker: the handler exits the
\* seat, calls the holder's method (inner is its call, asks its requests) and
\* returns a watch on the method's vow.
offerHandler(maker, inner, asks) ==
    /\ asks
    /\ calls' = Append(Append(calls, inner), OfferCall(maker, NextId))
    /\ UNCHANGED <<rest, state, balance, now, wakeLog, packets, nextSeq, taps, inbound>>

Delegate(validatorAddress, ertpAmount) ==
    offerHandler("Delegate",
                 NewCall("delegate", <<ertpAmount>>, "extractFirstResultWatcher"),
                 /\ AskBridge("executeTx", <<MsgDelegate(validatorAddress, ertpAmount)>>)
                 /\ UNCHANGED <<hubLog, timeQueries>>)

Undelegate(validatorAddress, ertpAmount) ==
    offerHandler("Undelegate",
                 NewCall("undelegate", <<ertpAmount>>, "undelegateWatcher"),
                 /\ AskBridge("executeTx", <<MsgUndelegate(validatorAddress, ertpAmount)>>)
                 /\ UNCHANGED <<hubLog, timeQueries>>)

OfferCoins(maker, op, toAccount, amounts, coins) ==
    IF coins.threw
    THEN offerHandler(maker, FailedCall(op, amounts, coins.message),
                      UNCHANGED <<bridgeLog, hubLog, timeQueries>>)
    ELSE offerHandler(maker, NewCall(op, amounts, "returnVoidWatcher"),
                      /\ AskBridge("executeTx", <<MsgSend(coins.value, toAccount)>>)
                      /\ UNCHANGED <<hubLog, timeQueries>>)

Send(toAccount, amount) ==
    OfferCoins("Send", "send", toAccount, <<amount>>, MapAmountToCoin(<<amount>>))

SendAll(toAccount, amounts) ==
    OfferCoins("SendAll", "sendAll", toAccount, amounts, MapAmountToCoin(amounts))

getBalances_asksBridge ==
    /\ AskBridge("getBalances", <<>>)
    /\ calls' = Append(calls, NewCall("getBalances", <<>>, "none"))
    /\ UNCHANGED <<net, state, balance, now, wakeLog>>

\* getBalances() { return asVow(() => Fail`not yet implemented`) }
getBalances ==
    /\ calls' = Append(calls, FailedCall("getBalances", <<>>, "not yet implemented"))
    /\ UNCHANGED <<net, state, bridgeLog, balance, now, wakeLog>>

\* transferSteps(amount, msg): asVow around a log line and a throw.
transferSteps(amount, msg) ==
    /\ calls' = Append(calls, FailedCall("transferSteps", <<amount, msg>>,
                                         "not yet implemented"))
    /\ UNCHANGED <<net, state, bridgeLog, balance, now, wakeLog>>

\* invitationMakers.CloseAccount() { throw Error('not yet implemented') }
CloseAccount ==
    /\ calls' = Append(calls, ThrownCall("CloseAccount", <<>>, "not yet implemented"))
    /\ UNCHANGED <<net, state, bridgeLog, balance, now, wakeLog>>

Transfer(amount, destination, opts) ==
    IF transfer_brandCheck(amount).threw
    THEN offerHandler("Transfer",
                      FailedCall("transfer", <<amount, destination, opts>>,
                                 transfer_brandCheck(amount).message),
                      UNCHANGED <<bridgeLog, hubLog, timeQueries>>)
    ELSE offerHandler("Transfer", TransferCall(amount, destination, opts),
                      /\ hubLog' = Append(hubLog, [call |-> NextId,
                                                   src |-> transfer_lookup(destination).src,
                                                   dst |-> transfer_lookup(destination).dst])
                      /\ timeQueries' = IF transfer_timeoutTimestamp(opts) = Pending
                                        THEN timeQueries \cup {NextId} ELSE timeQueries
                      /\ UNCHANGED bridgeLog)

\* A slip the claims must notice: the packet tools are made anew for the
\* registration and put into the state.
monitorTransfers_newPacketTools(tap) ==
    /\ calls' = Append(calls, [NewCall("monitorTransfers", <<tap>>, "none")
                               EXCEPT !.pc = "packetTools"])
    /\ state' = [state EXCEPT !.packetTools = "packetTools for the tap"]
    /\ UNCHANGED <<net, bridgeLog, balance, now, wakeLog>>

\* watch(E(this.state.packetTools).monitorTransfers(tap))
monitorTransfers(tap) ==
    /\ calls' = Append(calls, [NewCall("monitorTransfers", <<tap>>, "none")
                               EXCEPT !.pc = "packetTools"])
    /\ UNCHANGED <<net, state, bridgeLog, balance, now, wakeLog>>

\* The patterns a caller matches packets with: a pattern names the fields
\* an event must agree on, and AnyPacket (M.any()) names none.
AnyPacket == [any |-> TRUE]
Patterns == {[sequence |-> 2], [channelId |-> "channel-1", marker |-> "none"]}

\* A slip the claims must notice: the pattern is not passed on.
matchFirstPacket_anyPattern(patternV) ==
    /\ calls' = Append(calls, [op |-> "matchFirstPacket", arg |-> <<patternV>>,
                               pc |-> "packetTools", watcher |-> "none", reply |-> Pending,
                               result |-> Pending, wakeAt |-> 0, pattern |-> AnyPacket])
    /\ UNCHANGED <<net, state, bridgeLog, balance, now, wakeLog>>

\* watch(E(this.state.packetTools).matchFirstPacket(patternV))
matchFirstPacket(patternV) ==
    /\ calls' = Append(calls, [op |-> "matchFirstPacket", arg |-> <<patternV>>,
                               pc |-> "packetTools", watcher |-> "none", reply |-> Pending,
                               result |-> Pending, wakeAt |-> 0, pattern |-> patternV])
    /\ UNCHANGED <<net, state, bridgeLog, balance, now, wakeLog>>

\* ------------------------------------------- the LocalChainAccount (bridge)
ResultTags == {"a", "b"}
DelegateResults == [type : {"MsgDelegateResponse"}, tag : ResultTags]
SendResults == [type : {"MsgSendResponse"}, tag : {"a"}]
Copies(R) == {[j \in 1..k |-> r] : r \in R, k \in ReplyLengths}

InFlight(i) == i \in 1..Len(calls) /\ calls[i].pc = "bridge"
Request(i) == CHOOSE k \in 1..Len(bridgeLog) : bridgeLog[k].call = i

\* The result lists the bridge may answer an executeTx with.
ResultLists(messages) ==
    IF Len(messages) > 0 /\ messages[1].type = "/cosmos.staking.v1beta1.MsgDelegate"
    THEN Lists(DelegateResults)
    ELSE IF Len(messages) > 0 /\ messages[1].type = "/cosmos.staking.v1beta1.MsgUndelegate"
    THEN Copies(UndelegateResults)
    ELSE Copies(SendResults)

Settle(i, outcome) ==
    calls' = [calls EXCEPT ![i].pc = "turn", ![i].reply = outcome]

\* executeTx(messages) -> future<result[]>: fulfils with a result list or
\* rejects with the ledger's message.
BridgeExecuteTx(i) ==
    /\ InFlight(i)
    /\ bridgeLog[Request(i)].method = "executeTx"
    /\ \E o \in {Rejected(r) : r \in BridgeErrors}
             \cup {Fulfilled([results |-> rs]) : rs \in ResultLists(bridgeLog[Request(i)].arg)} :
          Settle(i, o)
    /\ UNCHANGED <<net, state, bridgeLog, balance, now, wakeLog>>

\* deposit(payment) -> future<void>; an account that reports the amount it
\* has deposited is allowed for as well.
BridgeDeposit(i) ==
    /\ InFlight(i)
    /\ bridgeLog[Request(i)].method = "deposit"
    /\ \/ /\ \E v \in {Undefined, bridgeLog[Request(i)].arg} : Settle(i, Fulfilled(v))
          /\ balance' = balance + bridgeLog[Request(i)].arg.value
       \/ /\ \E r \in BridgeErrors : Settle(i, Rejected(r))
          /\ UNCHANGED balance
    /\ UNCHANGED <<net, state, bridgeLog, now, wakeLog>>

\* withdraw(amount) -> future<payment>: rejects when the balance is short.
BridgeWithdraw(i) ==
    /\ InFlight(i)
    /\ bridgeLog[Request(i)].method = "withdraw"
    /\ LET amount == bridgeLog[Request(i)].arg IN
       IF amount.value <= balance
       THEN /\ Settle(i, Fulfilled([payment |-> amount.value, brand |-> amount.brand]))
            /\ balance' = balance - amount.value
       ELSE /\ Settle(i, Rejected(InsufficientFunds))
            /\ UNCHANGED balance
    /\ UNCHANGED <<net, state, bridgeLog, now, wakeLog>>

\* ------------------------------------------------------------- watchers
\* watch(p, watcher, ctx): once p has settled the watcher runs in a turn of
\* its own. No watcher of the kit has an onRejected, so a rejection of p
\* becomes the rejection of the vow watch returned.
Queued(i, watcher) ==
    /\ i \in 1..Len(calls)
    /\ calls[i].pc = "turn"
    /\ calls[i].watcher = watcher
    /\ IsFulfilled(calls[i].reply)

Finish(i, outcome) ==
    calls' = [calls EXCEPT ![i].pc = "done", ![i].result = outcome]

\* A slip the claims must notice: a watcher whose onRejected wraps the reason.
OnRejected_wrapped(watcher, reason) ==
    Rejected(IF watcher = "none" THEN reason ELSE "bridge call failed")

\* A slip the claims must notice: an onRejected that logs and returns.
OnRejected_logged(watcher, reason) == Fulfilled(Undefined)

\* A slip the claims must notice: makeChildNodeWatcher has an onRejected that
\* gives up on the storage node and returns nothing.
OnRejected_noChildNode(watcher, reason) ==
    IF watcher = "makeChildNodeWatcher" THEN Fulfilled(Undefined) ELSE Rejected(reason)

\* What a watcher of the kit makes of a rejection: none of the facets has an
\* onRejected, so the reason passes through unchanged.
OnRejected(watcher, reason) == Rejected(reason)

PropagateRejection(i) ==
    /\ i \in 1..Len(calls)
    /\ calls[i].pc = "turn"
    /\ IsRejected(calls[i].reply)
    /\ Finish(i, OnRejected(calls[i].watcher, calls[i].reply.reason))
    /\ UNCHANGED <<net, state, bridgeLog, balance, now, wakeLog>>

\* A slip the claims must notice: the value of p is dropped.
PlainWatch_returnVoid(i) ==
    /\ Queued(i, "none")
    /\ Finish(i, Fulfilled(Undefined))
    /\ UNCHANGED <<net, state, bridgeLog, balance, now, wakeLog>>

\* watch(p) without a watcher (withdraw, executeTx, sendThenWaitForAck,
\* monitorTransfers): the vow adopts p.
PlainWatch(i) ==
    /\ Queued(i, "none")
    /\ Finish(i, calls[i].reply)
    /\ UNCHANGED <<net, state, bridgeLog, balance, now, wakeLog>>

GuardFailure == "guard: argument does not match the method's shape"

\* M.call([M.record()]): an array of exactly one record.
extractFirstResultWatcherGuard(results) == Len(results) = 1

\* A slip the claims must notice: the list handed on instead of its element.
extractFirstResultWatcher_noIndex(results) ==
    IF Len(results) = 1
    THEN Return([results |-> results])
    ELSE Throw("expected exactly one result")

extractFirstResultWatcher_onFulfilled(results) ==
    IF Len(results) = 1
    THEN Return(results[1])
    ELSE Throw("expected exactly one result")

\* A watcher method behind its interface guard: what the watched vow gets.
Guarded(ok, r) ==
    IF ~ok THEN Rejected(GuardFailure)
    ELSE IF r.threw THEN Rejected(r.message)
    ELSE Fulfilled(r.value)

RunExtractFirstResult(i) ==
    /\ Queued(i, "extractFirstResultWatcher")
    /\ LET results == calls[i].reply.value.results IN
       Finish(i, Guarded(extractFirstResultWatcherGuard(results),
                         extractFirstResultWatcher_onFulfilled(results)))
    /\ UNCHANGED <<net, state, bridgeLog, balance, now, wakeLog>>

\* A slip the claims must notice: the watcher hands the value on.
returnVoidWatcher_echo(value) == Return(value)

\* returnVoidWatcher.onFulfilled(_value) { return undefined }
returnVoidWatcher_onFulfilled(value) == Return(Undefined)

RunReturnVoid(i) ==
    /\ Queued(i, "returnVoidWatcher")
    /\ Finish(i, Guarded(TRUE, returnVoidWatcher_onFulfilled(calls[i].reply.value)))
    /\ UNCHANGED <<net, state, bridgeLog, balance, now, wakeLog>>

\* M.call([M.splitRecord({completionTime: TimestampProtoShape})])
undelegateWatcherGuard(response) ==
    /\ Len(response) = 1
    /\ "completionTime" \in DOMAIN response[1]

\* A slip the claims must notice: the skew margin left out.
undelegateWatcher_wakeTime_noSkew(response) ==
    response[1].completionTime.seconds

\* The time undelegateWatcher.onFulfilled asks the timer to wake it at:
\* the seconds of the completionTime plus maxClockSkew, nanoseconds ignored.
undelegateWatcher_wakeTime(response) ==
    response[1].completionTime.seconds + maxClockSkew

RunUndelegateWatcher(i) ==
    /\ Queued(i, "undelegateWatcher")
    /\ LET response == calls[i].reply.value.results IN
       IF undelegateWatcherGuard(response)
       THEN /\ calls' = [calls EXCEPT ![i].pc = "timer",
                                      ![i].wakeAt = undelegateWatcher_wakeTime(response)]
            /\ wakeLog' = Append(wakeLog, [call |-> i,
                                           at |-> undelegateWatcher_wakeTime(response)])
       ELSE /\ Finish(i, Rejected(GuardFailure))
            /\ UNCHANGED wakeLog
    /\ UNCHANGED <<net, state, bridgeLog, balance, now>>

\* ------------------------------------------------------ the timer service
\* wakeAt(t) -> future<void>: fulfils once the clock has reached t.
TimerWake(i) ==
    /\ i \in 1..Len(calls)
    /\ calls[i].pc = "timer"
    /\ now >= calls[i].wakeAt
    /\ calls' = [calls EXCEPT ![i].pc = "woken"]
    /\ UNCHANGED <<net, state, bridgeLog, balance, now, wakeLog>>

\* A fault of the timer service: the wakeAt request of call i is rejected
\* (the service is cut off), and the watch on it sees the rejection.
TimerErrors == {"timer service disconnected"}
TimerReject(i) ==
    /\ i \in 1..Len(calls)
    /\ calls[i].pc = "timer"
    /\ \E r \in TimerErrors : Settle(i, Rejected(r))
    /\ UNCHANGED <<net, state, bridgeLog, balance, now, wakeLog>>

AdvanceTime ==
    /\ now < MaxTime
    /\ now' = now + 1
    /\ UNCHANGED <<net, state, calls, bridgeLog, balance, wakeLog>>

\* watch(E(timerService).wakeAt(..), returnVoidWatcher)
RunWakeWatcher(i) ==
    /\ i \in 1..Len(calls)
    /\ calls[i].pc = "woken"
    /\ Finish(i, Guarded(TRUE, returnVoidWatcher_onFulfilled(Undefined)))
    /\ UNCHANGED <<net, state, bridgeLog, balance, now, wakeLog>>

\* ----------------------------------------------------- the chain facade
\* getChainInfo() { return watch(this.state.localChainInfo) }: the value is
\* there at once, the vow adopts it in a later turn.
\* A slip the claims must notice: the vow is settled in the turn of the call.
getChainInfo_sameTurn ==
    /\ calls' = Append(calls, [NewCall("getChainInfo", <<>>, "none") EXCEPT
                                  !.pc = "done", !.result = Fulfilled(facade.localChainInfo)])
    /\ UNCHANGED <<net, state, bridgeLog, balance, now, wakeLog>>

getChainInfo ==
    /\ calls' = Append(calls, [NewCall("getChainInfo", <<>>, "none") EXCEPT
                                  !.pc = "turn", !.reply = Fulfilled(facade.localChainInfo)])
    /\ UNCHANGED <<net, state, bridgeLog, balance, now, wakeLog>>

\* query() { return asVow(() => Fail`not yet implemented`) }
query ==
    /\ calls' = Append(calls, FailedCall("query", <<>>, "not yet implemented"))
    /\ UNCHANGED <<net, state, bridgeLog, balance, now, wakeLog>>

\* What agoricNames holds under 'vbankAsset' at the time of a lookup; it grows
\* as assets are registered.
AssetLists == {[assets |-> <<>>], [assets |-> <<"ubld">>], [assets |-> <<"ubld", "uist">>]}
NamesErrors == {"agoricNames: vbankAsset not found"}

\* if (vbankAssets): set once the watcher has stored a list (an empty list
\* is an object and counts).
Cached == ~ Has(facade.vbankAssets, "undefined")

\* getVBankAssetInfo(): asVow around the cached list or, without one, a watch
\* on the values of agoricNames.lookup('vbankAsset').
getVBankAssetInfo ==
    /\ IF Cached
       THEN /\ calls' = Append(calls, [NewCall("getVBankAssetInfo", <<>>, "none") EXCEPT
                                          !.pc = "done",
                                          !.result = Fulfilled(facade.vbankAssets)])
            /\ UNCHANGED namesLog
       ELSE /\ calls' = Append(calls, [NewCall("getVBankAssetInfo", <<>>,
                                               "vbankAssetValuesWatcher") EXCEPT
                                          !.pc = "names"])
            /\ namesLog' = Append(namesLog, NextId)
    /\ UNCHANGED <<facade, kits, storageLog, incarnation, contract, F,
                   registrations, hubLog,
                   timeQueries, packets, nextSeq, taps, inbound, state, bridgeLog, balance,
                   now, wakeLog>>

\* makeAccount(): E(localchain).makeAccount() and, pipelined on its promise,
\* getAddress(); allVows of the two is watched by makeAccountWatcher.
makeAccount ==
    /\ calls' = Append(calls, [op |-> "makeAccount", arg |-> <<>>, pc |-> "localchain",
                               watcher |-> "makeAccountWatcher", reply |-> Pending,
                               result |-> Pending, wakeAt |-> 0,
                               lca |-> Pending, address |-> Pending])
    /\ UNCHANGED <<net, state, bridgeLog, balance, now, wakeLog>>

\* allVows(inputs): rejects as soon as an input has rejected, with its reason;
\* fulfils with the values in input order once all inputs have fulfilled.
allVows(inputs) ==
    IF \E k \in 1..Len(inputs) : IsRejected(inputs[k])
    THEN inputs[CHOOSE k \in 1..Len(inputs) :
                    /\ IsRejected(inputs[k])
                    /\ \A j \in 1..(k - 1) : ~ IsRejected(inputs[j])]
    ELSE IF \A k \in 1..Len(inputs) : IsFulfilled(inputs[k])
    THEN Fulfilled([k \in 1..Len(inputs) |-> inputs[k].value])
    ELSE Pending

\* ---------------------------------------- the chain hub and the time helper
\* The connections the chain hub has registered, by destination chain.
TransferChannels == [c \in {"cosmoshub-4", "osmosis-1"} |->
                        IF c = "cosmoshub-4" THEN "channel-1" ELSE "channel-2"]

\* getConnectionInfo(src, dst) -> future<connectionInfo>
getConnectionInfo(src, dst) ==
    IF src = TheAddress.chainId /\ dst \in DOMAIN TransferChannels
    THEN Fulfilled([id |-> "connection-0",
                    transferChannel |-> [portId |-> "transfer",
                                         channelId |-> TransferChannels[dst],
                                         counterPartyPortId |-> "transfer",
                                         counterPartyChannelId |-> "channel-9"]])
    ELSE Rejected("connection not found: " \o src \o "<->" \o dst)

\* allVows([connectionInfoV, timeout]): rejects with the first rejection,
\* fulfils with both values once both are there.
AllVows(conn, ts) ==
    IF IsFulfilled(allVows(<<conn, ts>>))
    THEN Fulfilled([connectionInfo |-> allVows(<<conn, ts>>).value[1],
                    timeoutTimestamp |-> allVows(<<conn, ts>>).value[2]])
    ELSE allVows(<<conn, ts>>)

\* The lookups of call i have become conn and ts: the watcher is queued as
\* soon as allVows settles.
Looked(i, conn, ts) ==
    calls' = [calls EXCEPT ![i].conn = conn, ![i].ts = ts,
                           ![i].reply = IF calls[i].pc = "lookups" THEN AllVows(conn, ts) ELSE @,
                           ![i].pc = IF @ = "lookups" /\ IsSettled(AllVows(conn, ts))
                                     THEN "turn" ELSE @]

HubReply(i) ==
    /\ IsCall(i, "transfer")
    /\ \E k \in 1..Len(hubLog) : hubLog[k].call = i
    /\ calls[i].conn = Pending
    /\ LET q == hubLog[CHOOSE k \in 1..Len(hubLog) : hubLog[k].call = i]
       IN  Looked(i, getConnectionInfo(q.src, q.dst), calls[i].ts)
    /\ UNCHANGED <<net, state, bridgeLog, balance, now, wakeLog>>

\* getTimeoutTimestampNS(): five minutes after the current time; never rejects.
TimeReply(i) ==
    /\ i \in timeQueries
    /\ calls[i].ts = Pending
    /\ Looked(i, calls[i].conn, Fulfilled(now + FiveMinutes))
    /\ UNCHANGED <<net, state, bridgeLog, balance, now, wakeLog>>

\* --------------------------------------------------- transferWatcher
\* A slip the claims must notice: the message goes out through executeTx and
\* the vow follows the bridge's answer, not the acknowledgement.
RunTransferWatcher_executeTx(i) ==
    /\ Queued(i, "transferWatcher")
    /\ bridgeLog' = Append(bridgeLog, [method |-> "executeTx",
                                       arg |-> <<[type |-> "/cosmos.bank.v1beta1.MsgSend"]>>,
                                       call |-> i])
    /\ calls' = [calls EXCEPT ![i].pc = "bridge", ![i].watcher = "none",
                              ![i].reply = Pending]
    /\ UNCHANGED <<net, state, balance, now, wakeLog>>

\* typedJson('/ibc.applications.transfer.v1.MsgTransfer', {...})
transferMsg(results, ctx) ==
    [type |-> "/ibc.applications.transfer.v1.MsgTransfer",
     sourcePort |-> results.connectionInfo.transferChannel.portId,
     sourceChannel |-> results.connectionInfo.transferChannel.channelId,
     token |-> [amount |-> String(ctx.amount.value),
                denom |-> IF Has(ctx.amount, "denom") THEN ctx.amount.denom ELSE "undefined"],
     sender |-> state.address.value,
     receiver |-> IF Has(ctx.destination, "value") THEN ctx.destination.value
                  ELSE "undefined",
     timeoutHeight |-> IF Has(ctx.opts, "timeoutHeight") THEN ctx.opts.timeoutHeight
                       ELSE [revisionHeight |-> 0, revisionNumber |-> 0],
     timeoutTimestamp |-> results.timeoutTimestamp,
     memo |-> IF Has(ctx.opts, "memo") THEN ctx.opts.memo ELSE ""]

\* transferWatcher.onFulfilled: builds the message and returns
\* holder.sendThenWaitForAck(sender), so the call now waits for the packet tools.
RunTransferWatcher(i) ==
    /\ Queued(i, "transferWatcher")
    /\ calls' = [calls EXCEPT
          ![i].pc = "packetTools", ![i].watcher = "none", ![i].reply = Pending,
          ![i].msg = transferMsg(calls[i].reply.value,
                                 [amount |-> calls[i].arg[1],
                                  destination |-> calls[i].arg[2],
                                  opts |-> calls[i].arg[3]])]
    /\ UNCHANGED <<net, state, bridgeLog, balance, now, wakeLog>>

\* ------------------------------- the turns of the topics' async functions
\* The turn after getPublicTopics' `await null`: this.state.topicKit is read
\* and the recorder is asked for its storage path, which is awaited.
ReadTopicKit(i) ==
    /\ IsCall(i, "getPublicTopics")
    /\ calls[i].pc = "await"
    /\ calls' = [calls EXCEPT ![i].pc = "storagePath",
                              ![i].reply = Fulfilled([description |-> TopicDescription,
                                                      subscriber |-> state.topicKit])]
    /\ UNCHANGED <<net, state, bridgeLog, balance, now, wakeLog>>

\* The turn after `await topicKit.recorder.getStoragePath()`: the record is
\* returned and the vow fulfils with it.
ReturnTopics(i) ==
    /\ IsCall(i, "getPublicTopics")
    /\ calls[i].pc = "storagePath"
    /\ Finish(i, Fulfilled([account |-> [description |-> calls[i].reply.value.description,
                                         subscriber |-> calls[i].reply.value.subscriber,
                                         storagePath |-> StoragePath]]))
    /\ UNCHANGED <<net, state, bridgeLog, balance, now, wakeLog>>

\* The turn after asContinuingOffer's `await null`: holder.getPublicTopics()
\* is called, and when(its vow) is awaited.
AwaitTopics(i) ==
    /\ IsCall(i, "asContinuingOffer")
    /\ calls[i].pc = "await"
    /\ calls' = Append([calls EXCEPT ![i].pc = "when", ![i].wakeAt = NextId],
                       [NewCall("getPublicTopics", <<>>, "none") EXCEPT !.pc = "await"])
    /\ UNCHANGED <<net, state, bridgeLog, balance, now, wakeLog>>

\* The turn after `await when(holder.getPublicTopics())`: the offer record.
ReturnContinuingOffer(i) ==
    /\ IsCall(i, "asContinuingOffer")
    /\ calls[i].pc = "when"
    /\ calls[calls[i].wakeAt].pc = "done"
    /\ Finish(i, IF IsFulfilled(calls[calls[i].wakeAt].result)
                 THEN Fulfilled([publicSubscribers |-> calls[calls[i].wakeAt].result.value,
                                 invitationMakers |-> "invitationMakers"])
                 ELSE calls[calls[i].wakeAt].result)
    /\ UNCHANGED <<net, state, bridgeLog, balance, now, wakeLog>>

\* The continuations that are promise reactions, not watchers: they run
\* before the run ends, so before the next delivery from outside.
Awaiting(i) == calls[i].pc \in {"await", "storagePath", "when"}
RunEnded == \A i \in 1..Len(calls) : ~ Awaiting(i)

\* --------------------------------------------- getBalance and the offers
\* getBalance(brand) -> future<amount>
BridgeGetBalance(i) ==
    /\ InFlight(i)
    /\ bridgeLog[Request(i)].method = "getBalance"
    /\ \E o \in {Rejected(r) : r \in BridgeErrors}
                \cup {Fulfilled([brand |-> bridgeLog[Request(i)].arg, value |-> balance])} :
          Settle(i, o)
    /\ UNCHANGED <<net, state, bridgeLog, balance, now, wakeLog>>

\* A slip the claims must notice: the amount's brand is given for the denom.
getBalanceWatcher_brandAsDenom(natAmount, denom) ==
    Return([denom |-> natAmount.brand, value |-> natAmount.value])

\* getBalanceWatcher.onFulfilled(natAmount, denom)
getBalanceWatcher_onFulfilled(natAmount, denom) ==
    Return([denom |-> denom, value |-> natAmount.value])

RunGetBalanceWatcher(i) ==
    /\ Queued(i, "getBalanceWatcher")
    /\ Finish(i, Guarded(TRUE, getBalanceWatcher_onFulfilled(calls[i].reply.value,
                                                             calls[i].ctx)))
    /\ UNCHANGED <<net, state, bridgeLog, balance, now, wakeLog>>

\* The watch an offer handler returned adopts the outcome of the method's vow.
OfferAdopts(i) ==
    /\ IsCall(i, "offer")
    /\ calls[i].pc = "offer"
    /\ calls[calls[i].wakeAt].pc = "done"
    /\ Finish(i, calls[calls[i].wakeAt].result)
    /\ UNCHANGED <<net, state, bridgeLog, balance, now, wakeLog>>

\* ---------------------------------------------------------------- restart
\* A slip the claims must notice: the process may stop in the middle of a run.
RestartPoint_anytime == TRUE

\* The process restarts between two runs, not within one.
RestartPoint == RunEnded

\* What is left of the calls after a restart: the watches, with their watcher
\* facets and contexts, are durable; a function suspended at an await is not.
Survivors ==
    [i \in 1..Len(calls) |->
        IF Awaiting(i) THEN [calls[i] EXCEPT !.pc = "lost"] ELSE calls[i]]

Restart ==
    /\ RestartPoint
    /\ \E i \in 1..Len(calls) : calls[i].pc # "done"
    /\ incarnation' = Counted(incarnation)
    /\ calls' = Survivors
    /\ UNCHANGED <<F, registrations, made, hubLog, timeQueries, packets, nextSeq, taps,
                   inbound, state, bridgeLog, balance, now, wakeLog>>

\* ------------------------------------------------------ the vbank assets
\* agoricNames answers the lookup of call i and the values() piped onto it.
NamesReply(i) ==
    /\ IsCall(i, "getVBankAssetInfo")
    /\ calls[i].pc = "names"
    /\ \E o \in {Fulfilled(a) : a \in AssetLists} \cup {Rejected(r) : r \in NamesErrors} :
          Settle(i, o)
    /\ UNCHANGED <<net, state, bridgeLog, balance, now, wakeLog>>

\* vbankAssetValuesWatcher.onFulfilled(assets): state.vbankAssets = assets
RunVbankAssetValuesWatcher(i) ==
    /\ Queued(i, "vbankAssetValuesWatcher")
    /\ facade' = [facade EXCEPT !.vbankAssets = calls[i].reply.value]
    /\ Finish(i, Fulfilled(calls[i].reply.value))
    /\ UNCHANGED <<kits, storageLog, namesLog, incarnation, contract, F,
                   registrations, hubLog,
                   timeQueries, packets, nextSeq, taps, inbound, state, bridgeLog, balance,
                   now, wakeLog>>

\* ------------------------------------------- making an account, step by step
MakeAccountErrors == [localchain |-> "localchain: cannot make an account",
                      address    |-> "account: getAddress failed",
                      storage    |-> "storage: cannot make the child node"]

\* A slip the claims must notice: the watcher is put on the account alone.
Gathered_accountOnly(i, lca, address) ==
    calls' = [calls EXCEPT ![i].lca = lca, ![i].address = address,
                           ![i].reply = IF IsFulfilled(lca)
                                        THEN Fulfilled(<<lca.value, Undefined>>) ELSE lca,
                           ![i].pc = IF IsSettled(lca) THEN "turn" ELSE "address"]

\* The inputs of call i's allVows have become lca and address.
Gathered(i, lca, address) ==
    calls' = [calls EXCEPT ![i].lca = lca, ![i].address = address,
                           ![i].reply = allVows(<<lca, address>>),
                           ![i].pc = IF IsSettled(allVows(<<lca, address>>))
                                     THEN "turn" ELSE "address"]

\* localchain answers makeAccount() with the account or with a rejection.
LocalchainMakeAccount(i) ==
    /\ IsCall(i, "makeAccount")
    /\ calls[i].pc = "localchain"
    /\ \E outcome \in {Fulfilled([lca |-> i]), Rejected(MakeAccountErrors.localchain)} :
           Gathered(i, outcome, calls[i].address)
    /\ UNCHANGED <<net, state, bridgeLog, balance, now, wakeLog>>

\* The pipelined getAddress() is answered once the account exists.
AccountGetAddress(i) ==
    /\ IsCall(i, "makeAccount")
    /\ calls[i].pc = "address"
    /\ IsFulfilled(calls[i].lca)
    /\ \E outcome \in {Fulfilled(a) : a \in AccountAddresses}
                        \cup {Rejected(MakeAccountErrors.address)} :
           Gathered(i, calls[i].lca, outcome)
    /\ UNCHANGED <<net, state, bridgeLog, balance, now, wakeLog>>

\* makeAccountWatcher.onFulfilled([account, address]):
\* watch(E(storageNode).makeChildNode(address), makeChildNodeWatcher, {account, address})
RunMakeAccountWatcher(i) ==
    /\ Queued(i, "makeAccountWatcher")
    /\ storageLog' = Append(storageLog, [method |-> "makeChildNode",
                                         arg |-> calls[i].reply.value[2], call |-> i])
    /\ calls' = [calls EXCEPT ![i].pc = "storage", ![i].watcher = "makeChildNodeWatcher",
                              ![i].reply = Pending]
    /\ UNCHANGED <<facade, kits, namesLog, incarnation, contract, F,
                   registrations, hubLog, timeQueries, packets, nextSeq,
                   taps, inbound, state, bridgeLog, balance, now, wakeLog>>

\* The storage node answers makeChildNode(address).
StorageMakeChildNode(i) ==
    /\ IsCall(i, "makeAccount")
    /\ calls[i].pc = "storage"
    /\ \E outcome \in {Fulfilled([path |-> storageLog[CHOOSE k \in 1..Len(storageLog) :
                                                         storageLog[k].call = i].arg]),
                       Rejected(MakeAccountErrors.storage)} :
           calls' = [calls EXCEPT ![i].pc = "turn", ![i].reply = outcome]
    /\ UNCHANGED <<net, state, bridgeLog, balance, now, wakeLog>>

\* A slip the claims must notice: the packet tools are left for the first
\* operation that needs them.
init_lazyPacketTools(account, address, storageNode) ==
    [account |-> account, address |-> address,
     topicKit |-> [storageNode |-> storageNode, topic |-> "account"],
     packetTools |-> Undefined]

\* The kit's init: the recorder kit and the packet tools are made on the spot,
\* synchronously, and held in the kit's state with the account and address.
init(account, address, storageNode) ==
    [account |-> account, address |-> address,
     topicKit |-> [storageNode |-> storageNode, topic |-> "account"],
     packetTools |-> [account |-> account]]

\* A slip the claims must notice: the address is given the chain's bech32
\* prefix for its chainId.
RunMakeChildNodeWatcher_prefixAsChainId(i) ==
    /\ Queued(i, "makeChildNodeWatcher")
    /\ kits' = Append(kits, init(calls[i].lca.value,
                                 [value |-> calls[i].address.value, encoding |-> "bech32",
                                  chainId |-> facade.localChainInfo.bech32Prefix],
                                 calls[i].reply.value))
    /\ Finish(i, Fulfilled([holder |-> Len(kits) + 1]))
    /\ UNCHANGED <<facade, storageLog, namesLog, incarnation, contract, F,
                   registrations, hubLog, timeQueries, packets,
                   nextSeq, taps, inbound, state, bridgeLog, balance, now, wakeLog>>

\* makeChildNodeWatcher.onFulfilled(childNode, {account, address}): makes the
\* kit and returns its holder.
RunMakeChildNodeWatcher(i) ==
    /\ Queued(i, "makeChildNodeWatcher")
    /\ kits' = Append(kits, init(calls[i].lca.value,
                                 [value |-> calls[i].address.value, encoding |-> "bech32",
                                  chainId |-> facade.localChainInfo.chainId],
                                 calls[i].reply.value))
    /\ Finish(i, Fulfilled([holder |-> Len(kits) + 1]))
    /\ UNCHANGED <<facade, storageLog, namesLog, incarnation, contract, F,
                   registrations, hubLog, timeQueries, packets,
                   nextSeq, taps, inbound, state, bridgeLog, balance, now, wakeLog>>

\* ------------------------------------------------------ the packet tools
PacketOf(i) == {k \in 1..Len(packets) : packets[k].call = i}
\* A slip the claims must notice: a resolved packet is resolved again.
Unresolved_forgotten(k) == TRUE
Unresolved(k) == packets[k].resolution = Pending

\* A slip the claims must notice: the message is dispatched and the packet is
\* left to be recorded when the bridge has answered.
PacketSendThenWaitForAck_unrecorded(i) ==
    /\ IsCall(i, "transfer")
    /\ calls[i].pc = "packetTools"
    /\ nextSeq' = [nextSeq EXCEPT ![calls[i].msg.sourceChannel] = @ + 1]
    /\ bridgeLog' = Append(bridgeLog, [method |-> "executeTx", arg |-> <<calls[i].msg>>,
                                       call |-> i])
    /\ calls' = [calls EXCEPT ![i].pc = "ack"]
    /\ UNCHANGED <<rest, state, balance, now, wakeLog, hubLog, timeQueries, taps, inbound,
                   packets>>

\* sendThenWaitForAck(sender): takes the channel's next sequence number,
\* records the OutboundPacket and has the sender dispatch the message.
PacketSendThenWaitForAck(i) ==
    /\ IsCall(i, "transfer")
    /\ calls[i].pc = "packetTools"
    /\ LET c == calls[i].msg.sourceChannel
       IN  /\ packets' = Append(packets, [channelId |-> c, sequence |-> nextSeq[c],
                                          payload |-> calls[i].msg, call |-> i,
                                          resolution |-> Pending, by |-> Undefined])
           /\ nextSeq' = [nextSeq EXCEPT ![c] = @ + 1]
    /\ bridgeLog' = Append(bridgeLog, [method |-> "executeTx", arg |-> <<calls[i].msg>>,
                                       call |-> i])
    /\ calls' = [calls EXCEPT ![i].pc = "ack"]
    /\ UNCHANGED <<rest, state, balance, now, wakeLog, hubLog, timeQueries, taps, inbound>>

\* Packet k is resolved: its future settles, and the watch on it is queued.
Resolve(k, outcome, by) ==
    /\ packets' = [packets EXCEPT ![k].resolution = outcome, ![k].by = by]
    /\ calls' = [calls EXCEPT ![packets[k].call].pc = "turn",
                              ![packets[k].call].reply = outcome,
                              ![packets[k].call].dispatch =
                                  IF by = Undefined /\ @ = Pending THEN outcome ELSE @]

TransferErrors == {"simulated unexpected MsgTransfer packet timeout"}
TransferResults == [results |-> <<[type |-> "MsgTransferResponse"]>>]

\* The bridge answers the dispatch of call i. A rejection rejects the packet's
\* future unless an event has resolved it already.
BridgeTransfer(i) ==
    /\ IsCall(i, "transfer")
    /\ calls[i].pc \in {"ack", "turn", "done"}
    /\ PacketOf(i) # {}
    /\ calls[i].dispatch = Pending
    /\ \E o \in {Rejected(r) : r \in TransferErrors} \cup {Fulfilled(TransferResults)} :
          LET k == CHOOSE k \in PacketOf(i) : TRUE
          IN  IF IsRejected(o) /\ Unresolved(k)
              THEN Resolve(k, o, Undefined)
              ELSE /\ calls' = [calls EXCEPT ![i].dispatch = o]
                   /\ UNCHANGED packets
    /\ UNCHANGED <<rest, state, bridgeLog, balance, now, wakeLog, hubLog, timeQueries, nextSeq,
                   taps, inbound>>

\* What the future of a packet settles to when event e is routed to it: a
\* verified acknowledgement leaves nothing to return ("Successful transfer
\* returns Promise<void>"), a failure rejects with its message.
FailureMessage(marker) ==
    IF marker = "timeout" THEN "packet timed out" ELSE "remote chain refused the transfer"
Acknowledged(e) ==
    IF e.marker = "none" THEN Fulfilled(Undefined) ELSE Rejected(FailureMessage(e.marker))

\* The unresolved OutboundPacket with the channel and sequence of event e.
Matching(e) ==
    {k \in 1..Len(packets) : /\ packets[k].channelId = e.channelId
                             /\ packets[k].sequence = e.sequence
                             /\ Unresolved(k)}
\* The taps that are offered event e: the active ones, when e is addressed to
\* the account and is not an error signal of the local stack.
Offered(e) ==
    {t \in 1..Len(taps) : /\ taps[t].active
                          /\ e.receiverAddress = state.address.value
                          /\ e.marker # "timeout"}

\* Event e agrees with the pattern on every field the pattern names.
Matches(pattern, e) == \A f \in DOMAIN pattern \cap DOMAIN e : e[f] = pattern[f]
\* The pending matchFirstPacket watchers whose pattern event e matches.
Matchers(e) ==
    {i \in 1..Len(calls) : /\ calls[i].op = "matchFirstPacket"
                           /\ calls[i].pc = "match"
                           /\ Matches(calls[i].pattern, e)}
\* The watchers event e settles. "In registration order, first match wins"
\* is either every watcher's own first match or the first registered watcher
\* alone: both are allowed.
Winners(e) ==
    {Matchers(e)} \cup {{i \in Matchers(e) : \A j \in Matchers(e) : i <= j}}
Offer(W, e) ==
    [i \in 1..Len(calls) |->
        IF i \in W THEN [calls[i] EXCEPT !.pc = "turn", !.reply = Fulfilled(e)]
        ELSE calls[i]]

\* The bridge delivers event e: it goes to the outbound packet it matches,
\* otherwise to the taps and to the pending matchFirstPacket watchers; an
\* event that matches nothing is dropped.
InboundEvent(e) ==
    /\ inbound' = inbound + 1
    /\ IF Matching(e) # {}
       THEN /\ Resolve(CHOOSE k \in Matching(e) : TRUE, Acknowledged(e),
                        [channelId |-> e.channelId, sequence |-> e.sequence,
                         marker |-> e.marker])
            /\ UNCHANGED taps
       ELSE /\ taps' = [t \in 1..Len(taps) |->
                           IF t \in Offered(e)
                           THEN [taps[t] EXCEPT !.count = @ + 1] ELSE taps[t]]
            /\ \E W \in Winners(e) :
                  IF W = {} THEN UNCHANGED calls ELSE calls' = Offer(W, e)
            /\ UNCHANGED packets
    /\ UNCHANGED <<rest, state, bridgeLog, balance, now, wakeLog, hubLog, timeQueries, nextSeq>>

\* monitorTransfers(tap) -> registrationHandle
PacketMonitorTransfers(i) ==
    /\ IsCall(i, "monitorTransfers")
    /\ calls[i].pc = "packetTools"
    /\ taps' = Append(taps, [tap |-> calls[i].arg[1], call |-> i, active |-> TRUE,
                             count |-> 0, revokes |-> 0, threw |-> FALSE])
    /\ Settle(i, Fulfilled([registration |-> Len(taps) + 1]))
    /\ UNCHANGED <<rest, state, bridgeLog, balance, now, wakeLog, hubLog, timeQueries, packets,
                   nextSeq, inbound>>

\* matchFirstPacket(pattern) -> future<event>: the watcher is registered, in
\* the order the requests were sent, and waits for an event.
PacketMatchFirstPacket(i) ==
    /\ IsCall(i, "matchFirstPacket")
    /\ calls[i].pc = "packetTools"
    /\ \A j \in 1..(i - 1) : calls[j].op = "matchFirstPacket" => calls[j].pc # "packetTools"
    /\ calls' = [calls EXCEPT ![i].pc = "match"]
    /\ UNCHANGED <<net, state, bridgeLog, balance, now, wakeLog>>

\* A slip the claims must notice: revoking a revoked registration throws.
revoke_strict(t) ==
    /\ t \in 1..Len(taps)
    /\ calls[taps[t].call].pc = "done"
    /\ taps' = [taps EXCEPT ![t].active = FALSE, ![t].revokes = Counted(@),
                            ![t].threw = @ \/ ~ taps[t].active]
    /\ UNCHANGED <<rest, state, calls, bridgeLog, balance, now, wakeLog, hubLog, timeQueries,
                   packets, nextSeq, inbound>>

\* registrationHandle.revoke(), by whoever holds the registration: the tap
\* becomes inactive, and revoking it again changes nothing and does not throw.
revoke(t) ==
    /\ t \in 1..Len(taps)
    /\ calls[taps[t].call].pc = "done"
    /\ taps' = [taps EXCEPT ![t].active = FALSE, ![t].revokes = Counted(@)]
    /\ UNCHANGED <<rest, state, calls, bridgeLog, balance, now, wakeLog, hubLog, timeQueries,
                   packets, nextSeq, inbound>>

\* ------------------------------------------------- the vow tools: watch
\* watch(F, handler, context) on one vow F: a registration is kept with F,
\* and its handler is invoked in a turn of its own once F has settled, the
\* earlier registration first, also when F had settled before the watch.
Handlers == {"h1", "h2"}
Outcomes == {Fulfilled("v1"), Fulfilled("v2"), Rejected("r1"), Rejected("r2")}
Attached(h) == \E w \in 1..Len(registrations) : registrations[w].handler = h

SettleF(o) ==
    /\ F = Pending
    /\ F' = o
    /\ UNCHANGED <<registrations, made, incarnation, hubLog, timeQueries, packets, nextSeq, taps, inbound,
                   state, calls, bridgeLog, balance, now, wakeLog>>

WatchF(h) ==
    /\ ~ Attached(h)
    /\ registrations' = Append(registrations,
                               [handler |-> h, late |-> IsSettled(F), runs |-> 0,
                                saw |-> Pending])
    /\ UNCHANGED <<F, made, incarnation, hubLog, timeQueries, packets, nextSeq, taps, inbound,
                   state, calls, bridgeLog, balance, now, wakeLog>>

\* A slip the claims must notice: a watcher attached after F settled is
\* never invoked.
InvokeWatcher_earlyOnly(w) ==
    /\ w \in 1..Len(registrations)
    /\ IsSettled(F)
    /\ ~ registrations[w].late
    /\ registrations[w].runs = 0
    /\ \A v \in 1..(w - 1) : registrations[v].runs > 0
    /\ registrations' = [registrations EXCEPT ![w].runs = 1, ![w].saw = F]
    /\ UNCHANGED <<F, made, incarnation, hubLog, timeQueries, packets, nextSeq, taps, inbound,
                   state, calls, bridgeLog, balance, now, wakeLog>>

InvokeWatcher(w) ==
    /\ w \in 1..Len(registrations)
    /\ IsSettled(F)
    /\ registrations[w].runs = 0
    /\ \A v \in 1..(w - 1) : registrations[v].runs > 0
    /\ registrations' = [registrations EXCEPT ![w].runs = 1, ![w].saw = F]
    /\ UNCHANGED <<F, made, incarnation, hubLog, timeQueries, packets, nextSeq, taps, inbound,
                   state, calls, bridgeLog, balance, now, wakeLog>>

\* ----------------------------------------------------- specifications
CallIds == 1..Len(calls)
\* A behaviour makes at most `bound` calls.
Room(bound) == Len(calls) < bound

\* What the vow tools and the collaborators do between the calls.
StakingSteps ==
    \/ \E i \in CallIds : BridgeExecuteTx(i)
    \/ \E i \in CallIds : PropagateRejection(i)
    \/ \E i \in CallIds : RunExtractFirstResult(i)
    \/ \E i \in CallIds : RunUndelegateWatcher(i)
    \/ \E i \in CallIds : TimerWake(i)
    \/ \E i \in CallIds : RunWakeWatcher(i)
    \/ AdvanceTime

NextStaking ==
    \/ \E v \in Validators, a \in StakeAmounts : Room(MaxCalls) /\ delegate(v, a)
    \/ \E v \in Validators, a \in StakeAmounts : Room(MaxCalls) /\ undelegate(v, a)
    \/ StakingSteps

SpecStaking == Init /\ [][NextStaking]_vars

\* undelegate with a timer service that may reject a wakeAt request.
NextUndelegate ==
    \/ \E v \in Validators, a \in StakeAmounts : Room(MaxCalls) /\ undelegate(v, a)
    \/ \E i \in CallIds : BridgeExecuteTx(i)
    \/ \E i \in CallIds : PropagateRejection(i)
    \/ \E i \in CallIds : RunUndelegateWatcher(i)
    \/ \E i \in CallIds : TimerWake(i)
    \/ \E i \in CallIds : TimerReject(i)
    \/ \E i \in CallIds : RunWakeWatcher(i)
    \/ AdvanceTime

SpecUndelegate == Init /\ [][NextUndelegate]_vars

BankSteps ==
    \/ \E i \in CallIds : BridgeDeposit(i)
    \/ \E i \in CallIds : BridgeWithdraw(i)
    \/ \E i \in CallIds : PropagateRejection(i)
    \/ \E i \in CallIds : PlainWatch(i)
    \/ \E i \in CallIds : RunReturnVoid(i)

NextBank ==
    \/ \E a \in ErtpAmounts : Room(MaxBankCalls) /\ deposit(a)
    \/ \E a \in ErtpAmounts : Room(MaxBankCalls) /\ withdraw(a)
    \/ BankSteps

SpecBank == Init /\ [][NextBank]_vars

SendSteps ==
    \/ \E i \in CallIds : BridgeExecuteTx(i)
    \/ \E i \in CallIds : PropagateRejection(i)
    \/ \E i \in CallIds : RunReturnVoid(i)

NextSend ==
    \/ \E to \in ToAccounts, a \in SendAmounts : Room(MaxCalls) /\ send(to, a)
    \/ \E to \in ToAccounts, as \in SendLists : Room(MaxCalls) /\ sendAll(to, as)
    \/ SendSteps

SpecSend == Init /\ [][NextSend]_vars

\* getBalance next to deposits, which change what the bridge reports.
NextBalance ==
    \/ \E d \in BalanceArgs : Room(MaxCalls) /\ getBalance(d)
    \/ \E a \in ErtpAmounts : Room(MaxCalls) /\ deposit(a)
    \/ \E i \in CallIds : BridgeGetBalance(i)
    \/ \E i \in CallIds : BridgeDeposit(i)
    \/ \E i \in CallIds : RunGetBalanceWatcher(i)
    \/ \E i \in CallIds : RunReturnVoid(i)
    \/ \E i \in CallIds : PropagateRejection(i)

SpecBalance == Init /\ [][NextBalance]_vars

\* The methods that send messages to the bridge, up to the dispatch: the four
\* that build their message, one transfer, and executeTx with messages the
\* caller has written, one of them in another account's name.
CallerMessages ==
    {<<[type |-> "/cosmos.bank.v1beta1.MsgSend",
        amount |-> <<[denom |-> "ubld", amount |-> "10"]>>,
        toAddress |-> "agoric1EOAAccAddress",
        fromAddress |-> from]>> : from \in {"agoric1acct", "cosmos1pleab"}}
NextOrigin ==
    \/ \E v \in Validators, a \in StakeAmounts : Room(MaxAccountCalls) /\ delegate(v, a)
    \/ \E v \in Validators, a \in StakeAmounts : Room(MaxAccountCalls) /\ undelegate(v, a)
    \/ \E to \in ToAccounts, a \in SendAmounts : Room(MaxAccountCalls) /\ send(to, a)
    \/ \E to \in ToAccounts, as \in SendLists : Room(MaxAccountCalls) /\ sendAll(to, as)
    \/ \E m \in CallerMessages : Room(MaxAccountCalls) /\ executeTx(m)
    \/ \E a \in TransferAmounts, d \in Destinations, o \in TransferOpts :
          (\A i \in CallIds : calls[i].op # "transfer") /\ transfer(a, d, o)
    \/ \E i \in CallIds : HubReply(i)
    \/ \E i \in CallIds : TimeReply(i)
    \/ \E i \in CallIds : RunTransferWatcher(i)
    \/ \E i \in CallIds : PacketSendThenWaitForAck(i)
    \/ \E i \in CallIds : PropagateRejection(i)

SpecOrigin == Init /\ [][NextOrigin]_vars

\* The seven methods that are one bridge call each, side by side.
ExecuteTxMessages == {<<[type |-> "/cosmos.bank.v1beta1.MsgSend"]>>}
OneAmount == [brand : Brands, value : {1}]

AccountSteps ==
    \/ \E i \in CallIds : BridgeExecuteTx(i)
    \/ \E i \in CallIds : BridgeDeposit(i)
    \/ \E i \in CallIds : BridgeWithdraw(i)
    \/ \E i \in CallIds : PropagateRejection(i)
    \/ \E i \in CallIds : PlainWatch(i)
    \/ \E i \in CallIds : RunReturnVoid(i)
    \/ \E i \in CallIds : RunExtractFirstResult(i)
    \/ \E i \in CallIds : RunUndelegateWatcher(i)
    \/ \E i \in CallIds : TimerWake(i)
    \/ \E i \in CallIds : RunWakeWatcher(i)
    \/ AdvanceTime

NextAccount ==
    \/ \E a \in OneAmount : Room(MaxAccountCalls) /\ deposit(a)
    \/ \E a \in OneAmount : Room(MaxAccountCalls) /\ withdraw(a)
    \/ \E m \in ExecuteTxMessages : Room(MaxAccountCalls) /\ executeTx(m)
    \/ \E v \in Validators, a \in StakeAmounts : Room(MaxAccountCalls) /\ delegate(v, a)
    \/ \E v \in Validators, a \in StakeAmounts : Room(MaxAccountCalls) /\ undelegate(v, a)
    \/ \E to \in ToAccounts, a \in SendAmounts : Room(MaxAccountCalls) /\ send(to, a)
    \/ \E to \in ToAccounts, as \in SendLists : Room(MaxAccountCalls) /\ sendAll(to, as)
    \/ AccountSteps

SpecAccount == Init /\ [][NextAccount]_vars

\* transfer, next to a direct executeTx.
TransferSteps ==
    \/ \E i \in CallIds : HubReply(i)
    \/ \E i \in CallIds : TimeReply(i)
    \/ \E i \in CallIds : RunTransferWatcher(i)
    \/ \E i \in CallIds : PacketSendThenWaitForAck(i)
    \/ \E i \in CallIds : BridgeTransfer(i)
    \/ \E i \in CallIds : BridgeExecuteTx(i)
    \/ \E i \in CallIds : PropagateRejection(i)
    \/ \E i \in CallIds : PlainWatch(i)
    \/ \E e \in Events : inbound < MaxEvents /\ InboundEvent(e)

NextTransfer ==
    \/ \E a \in TransferAmounts, d \in Destinations, o \in TimeoutOpts :
          Room(MaxTransferCalls) /\ transfer(a, d, o)
    \/ \E m \in ExecuteTxMessages : Room(MaxTransferCalls) /\ executeTx(m)
    \/ TransferSteps

SpecTransfer == Init /\ [][NextTransfer]_vars

\* Transfers of one amount to one chain with every choice of options, the
\* clock advancing while the time helper has not answered.
EveryOpts ==
    TransferOpts \cup
    {[timeoutHeight |-> [revisionHeight |-> 100, revisionNumber |-> 1],
      timeoutTimestamp |-> 7, memo |-> "hello"],
     [timeoutTimestamp |-> 0]}
NextTimeout ==
    \/ \E o \in EveryOpts :
          Room(MaxTransferCalls)
          /\ transfer([denom |-> "ubld", value |-> 100],
                      CHOOSE d \in Destinations : d.chainId = "cosmoshub-4", o)
    \/ AdvanceTime
    \/ \E i \in CallIds : HubReply(i)
    \/ \E i \in CallIds : TimeReply(i)
    \/ \E i \in CallIds : RunTransferWatcher(i)
    \/ \E i \in CallIds : PacketSendThenWaitForAck(i)

SpecTimeout == Init /\ [][NextTimeout]_vars

\* monitorTransfers, next to one transfer over channel-1.
MonitoredTransfer ==
    <<[denom |-> "ubld", value |-> 100],
      CHOOSE d \in Destinations : d.chainId = "cosmoshub-4",
      CHOOSE o \in TransferOpts : Has(o, "timeoutHeight")>>

\* The events of the channel the transfer goes over.
MonitoredEvents == {e \in Events : e.channelId = "channel-1"}

MonitorSteps ==
    \/ \E i \in CallIds : PacketMonitorTransfers(i)
    \/ \E t \in 1..Len(taps) : revoke(t)
    \/ \E i \in CallIds : HubReply(i)
    \/ \E i \in CallIds : RunTransferWatcher(i)
    \/ \E i \in CallIds : PacketSendThenWaitForAck(i)
    \/ \E i \in CallIds : BridgeTransfer(i)
    \/ \E i \in CallIds : PropagateRejection(i)
    \/ \E i \in CallIds : PlainWatch(i)
    \/ \E e \in MonitoredEvents : inbound < MaxTapEvents /\ InboundEvent(e)

NextMonitor ==
    \/ \E t \in TapNames : Room(MaxMonitorCalls) /\ monitorTransfers(t)
    \/ Room(MaxMonitorCalls) /\ (\A i \in CallIds : calls[i].op # "transfer")
          /\ transfer(MonitoredTransfer[1], MonitoredTransfer[2], MonitoredTransfer[3])
    \/ MonitorSteps

SpecMonitor == Init /\ [][NextMonitor]_vars

\* matchFirstPacket, once with each pattern, next to one tap and one transfer
\* over channel-1; the events are the transfers and acknowledgements addressed
\* to the account.
MatchedEvents ==
    {e \in MonitoredEvents : e.receiverAddress = TheAddress.value /\ e.marker = "none"}
NextMatch ==
    \/ \E pattern \in Patterns :
          /\ \A i \in CallIds : calls[i].op = "matchFirstPacket" => calls[i].arg # <<pattern>>
          /\ matchFirstPacket(pattern)
    \/ (\A i \in CallIds : calls[i].op # "monitorTransfers")
          /\ \E t \in TapNames : monitorTransfers(t)
    \/ (\A i \in CallIds : calls[i].op # "transfer")
          /\ transfer(MonitoredTransfer[1], MonitoredTransfer[2], MonitoredTransfer[3])
    \/ \E i \in CallIds : PacketMatchFirstPacket(i)
    \/ \E i \in CallIds : PacketMonitorTransfers(i)
    \/ \E i \in CallIds : HubReply(i)
    \/ \E i \in CallIds : RunTransferWatcher(i)
    \/ \E i \in CallIds : PacketSendThenWaitForAck(i)
    \/ \E i \in CallIds : BridgeTransfer(i)
    \/ \E i \in CallIds : PropagateRejection(i)
    \/ \E i \in CallIds : PlainWatch(i)
    \/ \E e \in MatchedEvents : inbound < MaxEvents /\ InboundEvent(e)

SpecMatch == Init /\ [][NextMatch]_vars

\* Every method of the holder, with every reply, wake and event. The clock
\* is followed while a wake is awaited, the events once a packet or a tap is
\* there to take them.
NextSettle ==
    \/ \E a \in OneAmount : Room(MaxSettleCalls) /\ deposit(a)
    \/ \E a \in OneAmount : Room(MaxSettleCalls) /\ withdraw(a)
    \/ \E m \in ExecuteTxMessages : Room(MaxSettleCalls) /\ executeTx(m)
    \/ \E v \in Validators, a \in StakeAmounts : Room(MaxSettleCalls) /\ delegate(v, a)
    \/ \E v \in Validators, a \in StakeAmounts : Room(MaxSettleCalls) /\ undelegate(v, a)
    \/ \E to \in ToAccounts, a \in SendAmounts : Room(MaxSettleCalls) /\ send(to, a)
    \/ \E to \in ToAccounts, as \in SendLists : Room(MaxSettleCalls) /\ sendAll(to, as)
    \/ \E a \in TransferAmounts, d \in Destinations, o \in TimeoutOpts :
          Room(MaxSettleCalls) /\ transfer(a, d, o)
    \/ \E t \in TapNames : Room(MaxSettleCalls) /\ monitorTransfers(t)
    \/ \E i \in CallIds : BridgeDeposit(i)
    \/ \E i \in CallIds : BridgeWithdraw(i)
    \/ \E i \in CallIds : RunReturnVoid(i)
    \/ \E i \in CallIds : RunExtractFirstResult(i)
    \/ \E i \in CallIds : RunUndelegateWatcher(i)
    \/ \E i \in CallIds : TimerWake(i)
    \/ \E i \in CallIds : RunWakeWatcher(i)
    \/ (\E i \in CallIds : calls[i].pc = "timer") /\ AdvanceTime
    \/ \E i \in CallIds : PacketMonitorTransfers(i)
    \/ \E t \in 1..Len(taps) : revoke(t)
    \/ \E i \in CallIds : HubReply(i)
    \/ \E i \in CallIds : TimeReply(i)
    \/ \E i \in CallIds : RunTransferWatcher(i)
    \/ \E i \in CallIds : PacketSendThenWaitForAck(i)
    \/ \E i \in CallIds : BridgeTransfer(i)
    \/ \E i \in CallIds : BridgeExecuteTx(i)
    \/ \E i \in CallIds : PropagateRejection(i)
    \/ \E i \in CallIds : PlainWatch(i)
    \/ \E e \in Events : inbound < MaxEvents /\ Len(packets) + Len(taps) > 0 /\ InboundEvent(e)

SpecSettle == Init /\ [][NextSettle]_vars

\* Every holder operation that takes part in the account's state, each up to
\* its settlement, with no inbound events.
NextFixed ==
    \/ \E a \in OneAmount : Room(MaxSettleCalls) /\ deposit(a)
    \/ \E a \in OneAmount : Room(MaxSettleCalls) /\ withdraw(a)
    \/ \E m \in ExecuteTxMessages : Room(MaxSettleCalls) /\ executeTx(m)
    \/ \E v \in Validators, a \in StakeAmounts : Room(MaxSettleCalls) /\ delegate(v, a)
    \/ \E v \in Validators, a \in StakeAmounts : Room(MaxSettleCalls) /\ undelegate(v, a)
    \/ \E to \in ToAccounts, a \in SendAmounts : Room(MaxSettleCalls) /\ send(to, a)
    \/ \E to \in ToAccounts, as \in SendLists : Room(MaxSettleCalls) /\ sendAll(to, as)
    \/ \E a \in TransferAmounts, d \in Destinations, o \in TimeoutOpts :
          Room(MaxSettleCalls) /\ transfer(a, d, o)
    \/ \E t \in TapNames : Room(MaxSettleCalls) /\ monitorTransfers(t)
    \/ \E pattern \in Patterns : Room(MaxSettleCalls) /\ matchFirstPacket(pattern)
    \/ \E d \in BalanceArgs : Room(MaxSettleCalls) /\ getBalance(d)
    \/ Room(MaxSettleCalls) /\ getBalances
    \/ Room(MaxSettleCalls) /\ getPublicTopics
    \/ \E i \in CallIds : BridgeDeposit(i)
    \/ \E i \in CallIds : BridgeWithdraw(i)
    \/ \E i \in CallIds : BridgeGetBalance(i)
    \/ \E i \in CallIds : RunGetBalanceWatcher(i)
    \/ \E i \in CallIds : ReadTopicKit(i)
    \/ \E i \in CallIds : ReturnTopics(i)
    \/ \E i \in CallIds : RunReturnVoid(i)
    \/ \E i \in CallIds : RunExtractFirstResult(i)
    \/ \E i \in CallIds : RunUndelegateWatcher(i)
    \/ \E i \in CallIds : TimerWake(i)
    \/ \E i \in CallIds : RunWakeWatcher(i)
    \/ (\E i \in CallIds : calls[i].pc = "timer") /\ AdvanceTime
    \/ \E i \in CallIds : PacketMonitorTransfers(i)
    \/ \E i \in CallIds : PacketMatchFirstPacket(i)
    \/ \E t \in 1..Len(taps) : revoke(t)
    \/ \E i \in CallIds : HubReply(i)
    \/ \E i \in CallIds : TimeReply(i)
    \/ \E i \in CallIds : RunTransferWatcher(i)
    \/ \E i \in CallIds : PacketSendThenWaitForAck(i)
    \/ \E i \in CallIds : BridgeTransfer(i)
    \/ \E i \in CallIds : BridgeExecuteTx(i)
    \/ \E i \in CallIds : PropagateRejection(i)
    \/ \E i \in CallIds : PlainWatch(i)

SpecFixed == Init /\ [][NextFixed]_vars

\* One vow and its watchers; a settled vow's watchers are not kept waiting.
NextFanOut ==
    \/ \E o \in Outcomes : SettleF(o)
    \/ \E h \in Handlers : WatchF(h)
    \/ \E w \in 1..Len(registrations) : InvokeWatcher(w)

SpecFanOut ==
    /\ Init
    /\ [][NextFanOut]_vars
    /\ \A w \in 1..Cardinality(Handlers) : WF_vars(InvokeWatcher(w))

\* The chain facade: its three methods and the making of an account.
MakeAccountSteps ==
    \/ \E i \in CallIds : LocalchainMakeAccount(i)
    \/ \E i \in CallIds : AccountGetAddress(i)
    \/ \E i \in CallIds : RunMakeAccountWatcher(i)
    \/ \E i \in CallIds : StorageMakeChildNode(i)
    \/ \E i \in CallIds : RunMakeChildNodeWatcher(i)
    \/ \E i \in CallIds : PropagateRejection(i)

NextFacade ==
    \/ Room(MaxFacadeCalls) /\ getChainInfo
    \/ Room(MaxFacadeCalls) /\ query
    \/ Room(MaxFacadeCalls) /\ makeAccount
    \/ \E i \in CallIds : PlainWatch(i)
    \/ MakeAccountSteps

SpecFacade == Init /\ [][NextFacade]_vars

\* The methods that are not implemented yet, next to three that are.
TransferStepsMsgs == {[toAccount |-> "cosmos1pleab"]}

NextStubs ==
    \/ Room(MaxStubCalls) /\ getBalances
    \/ \E a \in TransferAmounts, m \in TransferStepsMsgs :
          Room(MaxStubCalls) /\ transferSteps(a, m)
    \/ Room(MaxStubCalls) /\ query
    \/ Room(MaxStubCalls) /\ CloseAccount
    \/ Room(MaxStubCalls) /\ getChainInfo
    \/ \E a \in OneAmount : Room(MaxStubCalls) /\ deposit(a)
    \/ \E m \in ExecuteTxMessages : Room(MaxStubCalls) /\ executeTx(m)
    \/ \E i \in CallIds : BridgeDeposit(i)
    \/ \E i \in CallIds : BridgeExecuteTx(i)
    \/ \E i \in CallIds : RunReturnVoid(i)
    \/ \E i \in CallIds : PropagateRejection(i)
    \/ \E i \in CallIds : PlainWatch(i)

SpecStubs == Init /\ [][NextStubs]_vars

\* The topics of the account, next to a deposit that waits for the bridge.
\* The bridge delivers its reply in a run of its own.
NextTopics ==
    \/ Room(MaxTopicCalls) /\ getPublicTopics
    \/ Room(MaxTopicCalls) /\ asContinuingOffer
    \/ \E a \in OneAmount : Room(MaxTopicCalls) /\ deposit(a)
    \/ \E i \in CallIds : ReadTopicKit(i)
    \/ \E i \in CallIds : ReturnTopics(i)
    \/ \E i \in CallIds : AwaitTopics(i)
    \/ \E i \in CallIds : ReturnContinuingOffer(i)
    \/ \E i \in CallIds : RunEnded /\ BridgeDeposit(i)
    \/ \E i \in CallIds : RunReturnVoid(i)
    \/ \E i \in CallIds : PropagateRejection(i)

SpecTopics == Init /\ [][NextTopics]_vars

\* One operation of the account, or one offer, and the restarts that fall
\* while it is pending. The turns of watchers and of awaits are taken when
\* they are due.
Turns ==
    \/ \E i \in CallIds : RunReturnVoid(i)
    \/ \E i \in CallIds : RunExtractFirstResult(i)
    \/ \E i \in CallIds : RunUndelegateWatcher(i)
    \/ \E i \in CallIds : RunWakeWatcher(i)
    \/ \E i \in CallIds : RunGetBalanceWatcher(i)
    \/ \E i \in CallIds : RunTransferWatcher(i)
    \/ \E i \in CallIds : PacketSendThenWaitForAck(i)
    \/ \E i \in CallIds : PropagateRejection(i)
    \/ \E i \in CallIds : PlainWatch(i)
    \/ \E i \in CallIds : OfferAdopts(i)
    \/ \E i \in CallIds : ReadTopicKit(i)
    \/ \E i \in CallIds : ReturnTopics(i)
    \/ \E i \in CallIds : AwaitTopics(i)
    \/ \E i \in CallIds : ReturnContinuingOffer(i)

Idle == calls = <<>>

NextRestart ==
    \/ \E a \in OneAmount : Idle /\ deposit(a)
    \/ \E a \in OneAmount : Idle /\ withdraw(a)
    \/ \E v \in Validators, a \in StakeAmounts : Idle /\ delegate(v, a)
    \/ \E v \in Validators, a \in StakeAmounts : Idle /\ undelegate(v, a)
    \/ \E to \in ToAccounts, a \in SendAmounts : Idle /\ send(to, a)
    \/ \E to \in ToAccounts, as \in SendLists : Idle /\ sendAll(to, as)
    \/ \E a \in TransferAmounts, d \in Destinations, o \in TimeoutOpts :
          Idle /\ transfer(a, d, o)
    \/ \E d \in BalanceArgs : Idle /\ getBalance(d)
    \/ Idle /\ getPublicTopics
    \/ Idle /\ asContinuingOffer
    \/ \E v \in Validators, a \in StakeAmounts : Idle /\ Delegate(v, a)
    \/ \E v \in Validators, a \in StakeAmounts : Idle /\ Undelegate(v, a)
    \/ \E to \in ToAccounts, a \in SendAmounts : Idle /\ Send(to, a)
    \/ \E to \in ToAccounts, as \in SendLists : Idle /\ SendAll(to, as)
    \/ \E a \in TransferAmounts, d \in Destinations, o \in TimeoutOpts :
          Idle /\ Transfer(a, d, o)
    \/ \E i \in CallIds : BridgeDeposit(i)
    \/ \E i \in CallIds : BridgeWithdraw(i)
    \/ \E i \in CallIds : BridgeExecuteTx(i)
    \/ \E i \in CallIds : BridgeGetBalance(i)
    \/ \E i \in CallIds : BridgeTransfer(i)
    \/ \E i \in CallIds : HubReply(i)
    \/ \E i \in CallIds : TimeReply(i)
    \/ \E i \in CallIds : TimerWake(i)
    \/ (\E i \in CallIds : calls[i].pc = "timer") /\ AdvanceTime
    \/ \E e \in Events : inbound < MaxEvents /\ Len(packets) > 0 /\ InboundEvent(e)
    \/ Restart
    \/ Turns

SpecRestart == Init /\ [][NextRestart]_vars /\ WF_vars(Turns)

\* One offer through an invitation maker, up to the settlement of its result.
NextOffers ==
    \/ \E v \in Validators, a \in StakeAmounts : Idle /\ Delegate(v, a)
    \/ \E v \in Validators, a \in StakeAmounts : Idle /\ Undelegate(v, a)
    \/ \E to \in ToAccounts, a \in SendAmounts : Idle /\ Send(to, a)
    \/ \E to \in ToAccounts, as \in SendLists : Idle /\ SendAll(to, as)
    \/ \E a \in TransferAmounts, d \in Destinations, o \in TimeoutOpts :
          Idle /\ Transfer(a, d, o)
    \/ \E i \in CallIds : BridgeExecuteTx(i)
    \/ \E i \in CallIds : RunExtractFirstResult(i)
    \/ \E i \in CallIds : RunUndelegateWatcher(i)
    \/ \E i \in CallIds : TimerWake(i)
    \/ \E i \in CallIds : RunWakeWatcher(i)
    \/ (\E i \in CallIds : calls[i].pc = "timer") /\ AdvanceTime
    \/ \E i \in CallIds : RunReturnVoid(i)
    \/ \E i \in CallIds : HubReply(i)
    \/ \E i \in CallIds : TimeReply(i)
    \/ \E i \in CallIds : RunTransferWatcher(i)
    \/ \E i \in CallIds : PacketSendThenWaitForAck(i)
    \/ \E i \in CallIds : BridgeTransfer(i)
    \/ \E e \in Events : inbound = 0 /\ Len(packets) > 0 /\ InboundEvent(e)
    \/ \E i \in CallIds : PropagateRejection(i)
    \/ \E i \in CallIds : PlainWatch(i)
    \/ \E i \in CallIds : OfferAdopts(i)

SpecOffers == Init /\ [][NextOffers]_vars

\* The facade's asset info, asked for several times.
NextAssets ==
    \/ Room(MaxAssetCalls) /\ getVBankAssetInfo
    \/ \E i \in CallIds : NamesReply(i)
    \/ \E i \in CallIds : RunVbankAssetValuesWatcher(i)
    \/ \E i \in CallIds : PropagateRejection(i)

SpecAssets == Init /\ [][NextAssets]_vars

\* The two places that gather vows with allVows: one makeAccount and one
\* transfer, in either order, and the first event that follows the packet.
NextGather ==
    \/ (\A i \in CallIds : calls[i].op # "makeAccount") /\ makeAccount
    \/ \E a \in TransferAmounts, d \in Destinations, o \in TimeoutOpts :
          (\A i \in CallIds : calls[i].op # "transfer") /\ transfer(a, d, o)
    \/ MakeAccountSteps
    \/ \E i \in CallIds : HubReply(i)
    \/ \E i \in CallIds : TimeReply(i)
    \/ \E i \in CallIds : RunTransferWatcher(i)
    \/ \E i \in CallIds : PacketSendThenWaitForAck(i)
    \/ \E i \in CallIds : BridgeTransfer(i)
    \/ \E i \in CallIds : PlainWatch(i)
    \/ \E e \in MonitoredEvents : inbound = 0 /\ Len(packets) > 0 /\ InboundEvent(e)

SpecGather == Init /\ [][NextGather]_vars

\* ------------------------------------------ the send-anywhere contract
\* What the steps of sendIt before the deposit leave alone.
kitVars ==
    <<state, calls, bridgeLog, balance, now, wakeLog, hubLog, timeQueries, packets, nextSeq,
      taps, inbound, F, registrations, facade, kits, storageLog, namesLog, incarnation>>
addVars == <<nonce, adds, chainHub>>
\* What a call of the contract to its account leaves alone in the kit.
holderRest ==
    <<state, balance, now, wakeLog, packets, nextSeq, taps, inbound, F, registrations, facade,
      kits, storageLog, namesLog, incarnation>>

\* Why the collaborators of sendIt reject.
BrandErrors == {"brand not in agoricNames.vbankAsset"}
ChainErrors == {"chain not found"}
AccountErrors == {"cannot make account"}
SeatErrors == {"seat has exited"}
PaymentErrors == {"payment not available"}

\* mustMatch(offerArgs, harden({ chainName: M.scalar(), destAddr: M.string() }))
sendIt_mustMatch(offerArgs) ==
    IF DOMAIN offerArgs = {"chainName", "destAddr"}
    THEN Return(offerArgs) ELSE Throw("offerArgs: Must have missing properties")

\* An offer ends: the async function returned or threw.
Ends(s, outcome) == offers' = [offers EXCEPT ![s].pc = "done", ![s].result = outcome]
At(s, pc) == offers[s].pc = pc

\* sendIt(seat, offerArgs) up to its first await: the offerArgs are matched,
\* the give is read and agoricNamesTools.findBrandInVBank(amt.brand) is asked.
sendIt(s, offerArgs, give) ==
    /\ At(s, "none")
    /\ IF sendIt_mustMatch(offerArgs).threw
       THEN offers' = [offers EXCEPT ![s].pc = "done", ![s].offerArgs = offerArgs,
                                     ![s].give = give,
                                     ![s].result = Rejected(sendIt_mustMatch(offerArgs).message)]
       ELSE offers' = [offers EXCEPT ![s].pc = "findBrandInVBank",
                                     ![s].offerArgs = offerArgs, ![s].give = give]
    /\ UNCHANGED <<kitVars, contractAccount, accountLog, addVars>>

\* const chain = await orch.getChain(chainName); if (!contractAccount) { const
\* agoricChain = await orch.getChain('agoric'); ... }: the heap variable is
\* tested in the turn the chain arrives in.
sendIt_getChain(s) ==
    /\ offers' = [offers EXCEPT ![s].pc = IF contractAccount = 0 THEN "getChain agoric"
                                          ELSE "getChainInfo"]
    /\ UNCHANGED accountLog

\* const { denom } = await V.when(agoricNamesTools.findBrandInVBank(amt.brand));
\* then orch.getChain(chainName) is asked.
BrandReply(s) ==
    /\ At(s, "findBrandInVBank")
    /\ \/ offers' = [offers EXCEPT ![s].pc = "getChain",
                                   ![s].denom = VBankDenom(offers[s].give.amt.brand)]
       \/ \E r \in BrandErrors : Ends(s, Rejected(r))
    /\ UNCHANGED <<kitVars, contractAccount, accountLog, addVars>>

\* orch.getChain(chainName) settles: a chain of that name, or none.
ChainReply(s) ==
    /\ At(s, "getChain")
    /\ IF ChainIdOf(offers[s].offerArgs.chainName) = "none"
       THEN /\ \E r \in ChainErrors : Ends(s, Rejected(r))
            /\ UNCHANGED accountLog
       ELSE sendIt_getChain(s)
    /\ UNCHANGED <<kitVars, contractAccount, addVars>>

\* orch.getChain('agoric') settles and agoricChain.makeAccount() is called.
AgoricChainReply(s) ==
    /\ At(s, "getChain agoric")
    /\ offers' = [offers EXCEPT ![s].pc = "makeAccount"]
    /\ accountLog' = Append(accountLog, s)
    /\ UNCHANGED <<kitVars, contractAccount, addVars>>

\* The account the k-th call of makeAccount makes.
AccountOf(s) == CHOOSE k \in 1..Len(accountLog) : accountLog[k] = s

\* contractAccount = await E.when(agoricChain.makeAccount()); then
\* chain.getChainInfo() is asked.
MakeAccountReply(s) ==
    /\ At(s, "makeAccount")
    /\ \/ /\ contractAccount' = AccountOf(s)
          /\ offers' = [offers EXCEPT ![s].pc = "getChainInfo"]
       \/ /\ \E r \in AccountErrors : Ends(s, Rejected(r))
          /\ UNCHANGED contractAccount
    /\ UNCHANGED <<kitVars, accountLog, addVars>>

\* const info = await E.when(chain.getChainInfo()); the chainId is a string,
\* and withdrawFromSeat(zcf, seat, give) is asked.
ChainInfoReply(s) ==
    /\ At(s, "getChainInfo")
    /\ offers' = [offers EXCEPT ![s].pc = "withdrawFromSeat",
                                ![s].chainId = ChainIdOf(offers[s].offerArgs.chainName)]
    /\ UNCHANGED <<kitVars, contractAccount, accountLog, addVars>>

\* const { [kw]: pmtP } = await withdrawFromSeat(zcf, seat, give); then
\* E.when(pmtP, ...) waits for the payment.
WithdrawReply(s) ==
    /\ At(s, "withdrawFromSeat")
    /\ \/ offers' = [offers EXCEPT ![s].pc = "payment"]
       \/ \E r \in SeatErrors : Ends(s, Rejected(r))
    /\ UNCHANGED <<kitVars, contractAccount, accountLog, addVars>>

\* E.when(pmtP, pmt => contractAccount.deposit(pmt)): the payment arrives and
\* the heap variable's account of that turn is asked to deposit it.
PaymentReply(s) ==
    /\ At(s, "payment")
    /\ \/ /\ AskBridge("deposit", offers[s].give.amt)
          /\ calls' = Append(calls, NewCall("deposit", <<offers[s].give.amt>>,
                                            "returnVoidWatcher"))
          /\ offers' = [offers EXCEPT ![s].pc = "deposit", ![s].into = contractAccount,
                                      ![s].depositCall = NextId]
       \/ /\ \E r \in PaymentErrors : Ends(s, Rejected(r))
          /\ UNCHANGED <<calls, bridgeLog>>
    /\ UNCHANGED <<holderRest, hubLog, timeQueries, contractAccount, accountLog, addVars>>

\* ChainAddressShape is declared outside this file: a record of chainId,
\* encoding and value fits it, and whether any other record does is open.
ChainAddressShapeFits(destination) ==
    IF DOMAIN destination = {"chainId", "encoding", "value"} THEN {TRUE} ELSE BOOLEAN

\* A slip the claims must notice: the deposit is not awaited.
sendIt_deposited_unawaited(s) == TRUE

\* await E.when(pmtP, pmt => contractAccount.deposit(pmt)): the function goes
\* on when the vow of the deposit has settled.
sendIt_deposited(s) == calls[offers[s].depositCall].pc = "done"

\* { address: destAddr, addressEncoding: 'bech32', chainId }
sendIt_destination(s) ==
    [address |-> offers[s].offerArgs.destAddr, addressEncoding |-> "bech32",
     chainId |-> offers[s].chainId]

\* { denom, value: amt.value }
sendIt_amount(s) == [denom |-> offers[s].denom, value |-> offers[s].give.amt.value]

\* The deposit has settled: a rejection ends the offer, and otherwise
\* contractAccount.transfer(amount, destination) is called on the heap
\* variable's account of this turn.
DepositDone(s) ==
    /\ At(s, "deposit")
    /\ sendIt_deposited(s)
    /\ IF IsRejected(calls[offers[s].depositCall].result)
       THEN /\ Ends(s, calls[offers[s].depositCall].result)
            /\ UNCHANGED <<calls, hubLog, timeQueries>>
       ELSE \E fits \in ChainAddressShapeFits(sendIt_destination(s)) :
               IF fits
               THEN /\ holder_transfer(sendIt_amount(s), sendIt_destination(s), Undefined)
                    /\ offers' = [offers EXCEPT ![s].pc = "transfer",
                                                ![s].from = contractAccount,
                                                ![s].transferCall = NextId]
               ELSE /\ Ends(s, Rejected(GuardFailure))
                    /\ UNCHANGED <<calls, hubLog, timeQueries>>
    /\ UNCHANGED <<holderRest, bridgeLog, contractAccount, accountLog, addVars>>

\* await contractAccount.transfer(...): the offer ends as the transfer does.
TransferDone(s) ==
    /\ At(s, "transfer")
    /\ calls[offers[s].transferCall].pc = "done"
    /\ Ends(s, IF IsRejected(calls[offers[s].transferCall].result)
               THEN calls[offers[s].transferCall].result ELSE Fulfilled(Undefined))
    /\ UNCHANGED <<kitVars, contractAccount, accountLog, addVars>>

\* sendIt offers of the two seats, and what their account does in between.
NextSendAnywhere ==
    \/ \E s \in Seats, a \in OfferArgs, g \in Gives : sendIt(s, a, g)
    \/ \E s \in Seats : BrandReply(s)
    \/ \E s \in Seats : ChainReply(s)
    \/ \E s \in Seats : AgoricChainReply(s)
    \/ \E s \in Seats : MakeAccountReply(s)
    \/ \E s \in Seats : ChainInfoReply(s)
    \/ \E s \in Seats : WithdrawReply(s)
    \/ \E s \in Seats : PaymentReply(s)
    \/ \E s \in Seats : DepositDone(s)
    \/ \E s \in Seats : TransferDone(s)
    \/ \E i \in CallIds : BridgeDeposit(i)
    \/ \E i \in CallIds : RunReturnVoid(i)
    \/ \E i \in CallIds : PropagateRejection(i)
    \/ \E i \in CallIds : HubReply(i)
    \/ \E i \in CallIds : TimeReply(i)
    \/ \E i \in CallIds : RunTransferWatcher(i)
    \/ \E i \in CallIds : PacketSendThenWaitForAck(i)
    \/ \E i \in CallIds : PlainWatch(i)
    \/ \E e \in Events : inbound = 0 /\ Matching(e) # {} /\ InboundEvent(e)

SpecSendAnywhere == Init /\ [][NextSendAnywhere]_vars

\* ------------------------------------------ send-anywhere's addChain
MaxAddCalls == 3
\* Strings whose characters matter are sequences of characters.
DigitChars == <<"0", "1", "2", "3", "4", "5", "6", "7", "8", "9">>
\* `${n}` of a bigint.
Template(n) == [k \in 1..Len(Digits(n)) |-> DigitChars[Digits(n)[k] + 1]]
\* chainInfo: two chain ids, one the other followed by "-1".
ChainInfos == {[chainId |-> <<"h">>], [chainId |-> <<"h", "-", "1">>]}
ConnectionInfos == {[transferChannel |-> [portId |-> "transfer", channelId |-> "channel-1"]]}
\* Why chainHub.getChainInfo('agoric') rejects.
HubErrors == {"chain not found:agoric"}
RegisterErrors == {"key already registered"}

\* A slip the claims must notice: the key is the chain id alone.
addChain_chainKey_noNonce(chainInfo, n) == chainInfo.chainId

\* `${chainInfo.chainId}-${(nonce += 1n)}`, n being the nonce after the increment.
addChain_chainKey(chainInfo, n) == chainInfo.chainId \o <<"-">> \o Template(n)

\* addChain(chainInfo, connectionInfo) up to its await: the nonce is
\* incremented, the key is made and chainHub.getChainInfo('agoric') is asked.
addChain(chainInfo, connectionInfo) ==
    /\ nonce' = nonce + 1
    /\ adds' = Append(adds, [chainInfo |-> chainInfo, connectionInfo |-> connectionInfo,
                             chainKey |-> addChain_chainKey(chainInfo, nonce + 1),
                             pc |-> "getChainInfo", result |-> Pending])
    /\ UNCHANGED <<kitVars, contractAccount, offers, accountLog, chainHub>>

\* The connection addChain call a registers.
ConnectionOf(a, agoricChainInfo) ==
    [chainId1 |-> agoricChainInfo.chainId, chainId2 |-> adds[a].chainInfo.chainId,
     connectionInfo |-> adds[a].connectionInfo]
\* Whether the chain hub holds a connection between the two chain ids of c.
Connected(c) ==
    \E d \in chainHub.connections : d.chainId1 = c.chainId1 /\ d.chainId2 = c.chainId2

\* await E.when(chainHub.getChainInfo('agoric')) settles: on a rejection the
\* call rejects; otherwise the chain is registered under the key, then the
\* connection, and the key is returned. Whether the chain hub takes a second
\* registration of a connection or throws is open.
AgoricInfoReply(a) ==
    /\ a \in 1..Len(adds)
    /\ adds[a].pc = "getChainInfo"
    /\ \/ /\ \E r \in HubErrors :
                adds' = [adds EXCEPT ![a].pc = "done", ![a].result = Rejected(r)]
          /\ UNCHANGED chainHub
       \/ \E throws \in IF Connected(ConnectionOf(a, LocalChainInfo)) THEN BOOLEAN ELSE {FALSE} :
             /\ chainHub' =
                   [chains |-> chainHub.chains \cup
                                  {[chainKey |-> adds[a].chainKey,
                                    chainInfo |-> adds[a].chainInfo]},
                    connections |->
                        IF throws THEN chainHub.connections
                        ELSE {d \in chainHub.connections :
                                 ~ (/\ d.chainId1 = LocalChainInfo.chainId
                                    /\ d.chainId2 = adds[a].chainInfo.chainId)}
                             \cup {ConnectionOf(a, LocalChainInfo)}]
             /\ adds' = [adds EXCEPT
                   ![a].pc = "done",
                   ![a].result = IF throws
                                 THEN Rejected(CHOOSE r \in RegisterErrors : TRUE)
                                 ELSE Fulfilled(adds[a].chainKey)]
    /\ UNCHANGED <<kitVars, contractAccount, offers, accountLog, nonce>>

\* addChain calls, overlapping or not.
NextAddChain ==
    \/ \E ci \in ChainInfos, cn \in ConnectionInfos :
          Len(adds) < MaxAddCalls /\ addChain(ci, cn)
    \/ \E a \in 1..Len(adds) : AgoricInfoReply(a)

SpecAddChain == Init /\ [][NextAddChain]_vars

\* ------------------------------------------------------------- claims

\* The bridge answered undelegate call i with exactly one result, and that
\* result carries a completionTime.
HasCompletionTime(i) ==
    /\ IsCall(i, "undelegate")
    /\ IsFulfilled(calls[i].reply)
    /\ Len(calls[i].reply.value.results) = 1
    /\ "completionTime" \in DOMAIN calls[i].reply.value.results[1]

CompletionSeconds(i) == calls[i].reply.value.results[1].completionTime.seconds

\* C1: when the bridge's reply to undelegate carries a completionTime of T
\* seconds (whatever its nanoseconds), the vow undelegate returned is not
\* settled while the clock is before T + maxClockSkew, the wake it waits for
\* is the one at T + maxClockSkew, and once settled it is fulfilled with
\* undefined.
C1_UndelegateWaitsForSkew ==
    \A i \in CallIds :
        HasCompletionTime(i) =>
            /\ IsSettled(calls[i].result) =>
                   /\ now >= CompletionSeconds(i) + maxClockSkew
                   /\ calls[i].result = Fulfilled(Undefined)
            /\ calls[i].pc \in {"timer", "woken", "done"} =>
                   calls[i].wakeAt = CompletionSeconds(i) + maxClockSkew
            /\ calls[i].pc = "woken" => now >= CompletionSeconds(i) + maxClockSkew

\* An undelegate whose reply carried nanoseconds has fulfilled with undefined
\* after the clock reached T + maxClockSkew.
C1_Witness ==
    \E i \in CallIds :
        /\ HasCompletionTime(i)
        /\ calls[i].reply.value.results[1].completionTime.nanos = 999
        /\ calls[i].result = Fulfilled(Undefined)
        /\ now >= CompletionSeconds(i) + maxClockSkew

\* C7: a delegate whose executeTx reply holds exactly one result fulfils with
\* that result; a reply with no result or with more than one makes it reject,
\* and it never fulfils with one of several results. Until its watcher has
\* run the vow is unsettled.
C7_DelegateExactlyOneResult ==
    \A i \in CallIds :
        IsCall(i, "delegate") =>
            /\ calls[i].pc # "done" => calls[i].result = Pending
            /\ (calls[i].pc = "done" /\ IsFulfilled(calls[i].reply)) =>
                   LET results == calls[i].reply.value.results IN
                   IF Len(results) = 1
                   THEN calls[i].result = Fulfilled(results[1])
                   ELSE IsRejected(calls[i].result)

\* One delegate has fulfilled with its single result, another has rejected a
\* reply of two different results.
C7_Witness ==
    \E i, j \in CallIds :
        /\ IsCall(i, "delegate") /\ IsCall(j, "delegate")
        /\ calls[i].pc = "done" /\ calls[j].pc = "done"
        /\ IsFulfilled(calls[i].reply) /\ Len(calls[i].reply.value.results) = 1
        /\ calls[i].result = Fulfilled(calls[i].reply.value.results[1])
        /\ IsFulfilled(calls[j].reply) /\ Len(calls[j].reply.value.results) = 2
        /\ calls[j].reply.value.results[1] # calls[j].reply.value.results[2]
        /\ IsRejected(calls[j].result)

Served(op) == {i \in CallIds : calls[i].op = op /\ IsFulfilled(calls[i].reply)}
AmountOf(i) == calls[i].arg[1].value
RECURSIVE SumAmounts(_)
SumAmounts(S) ==
    IF S = {} THEN 0
    ELSE LET x == CHOOSE y \in S : TRUE IN AmountOf(x) + SumAmounts(S \ {x})

\* C5: a send or sendAll with an amount that has no denom rejects with
\* 'Brands not currently supported.' and asks the bridge nothing; any other
\* send or sendAll asks the bridge for exactly one executeTx, of one MsgSend
\* with one coin per amount, in the order given. So the MsgSend requests the
\* bridge has seen are as many as the calls whose amounts all carried a denom.
AllDenoms(amounts) == \A k \in 1..Len(amounts) : "denom" \in DOMAIN amounts[k]
SendCalls == {i \in CallIds : calls[i].op \in {"send", "sendAll"}}
RequestsOf(i) == {k \in 1..Len(bridgeLog) : bridgeLog[k].call = i}
IsMsgSend(k) ==
    /\ bridgeLog[k].method = "executeTx"
    /\ Len(bridgeLog[k].arg) = 1
    /\ bridgeLog[k].arg[1].type = "/cosmos.bank.v1beta1.MsgSend"

C5_SendRefusesBrands ==
    /\ \A i \in SendCalls :
          IF AllDenoms(calls[i].arg)
          THEN /\ Cardinality(RequestsOf(i)) = 1
               /\ \A k \in RequestsOf(i) :
                     /\ IsMsgSend(k)
                     /\ Len(bridgeLog[k].arg[1].amount) = Len(calls[i].arg)
                     /\ \A j \in 1..Len(calls[i].arg) :
                           bridgeLog[k].arg[1].amount[j] =
                               [denom |-> calls[i].arg[j].denom,
                                amount |-> String(calls[i].arg[j].value)]
          ELSE /\ RequestsOf(i) = {}
               /\ calls[i].result = Rejected("Brands not currently supported.")
    /\ Cardinality({k \in 1..Len(bridgeLog) : IsMsgSend(k)})
           = Cardinality({i \in SendCalls : AllDenoms(calls[i].arg)})

\* A sendAll of two different denoms has been rejected by the bridge, and a
\* sendAll whose second amount is an ERTP amount has been refused unsent.
C5_Witness ==
    \E i, j \in SendCalls :
        /\ calls[i].op = "sendAll" /\ Len(calls[i].arg) = 2
        /\ AllDenoms(calls[i].arg) /\ calls[i].arg[1] # calls[i].arg[2]
        /\ IsRejected(calls[i].result)
        /\ calls[j].op = "sendAll" /\ Len(calls[j].arg) = 2
        /\ "denom" \in DOMAIN calls[j].arg[1] /\ ~AllDenoms(calls[j].arg)
        /\ calls[j].result = Rejected("Brands not currently supported.")
        /\ Len(bridgeLog) = 1

\* C8: the balance is what was deposited less what was withdrawn and is never
\* negative; the bridge serves a withdraw(a) exactly when a is within the
\* balance, taking a from it, and otherwise rejects it and leaves the balance;
\* the vow of a served withdraw fulfils with a payment of exactly a, that of
\* a refused one rejects.
C8_BalanceInv ==
    /\ balance >= 0
    /\ balance = SumAmounts(Served("deposit")) - SumAmounts(Served("withdraw"))
    /\ \A i \in CallIds :
          (calls[i].op = "withdraw" /\ calls[i].pc = "done") =>
              IF IsFulfilled(calls[i].reply)
              THEN calls[i].result =
                       Fulfilled([payment |-> AmountOf(i), brand |-> calls[i].arg[1].brand])
              ELSE IsRejected(calls[i].result)

C8_WithdrawStep ==
    \A i \in CallIds :
        (calls[i].op = "withdraw" /\ calls[i].pc = "bridge" /\ calls'[i].pc # "bridge") =>
            /\ IsFulfilled(calls'[i].reply) <=> AmountOf(i) <= balance
            /\ balance' = IF AmountOf(i) <= balance THEN balance - AmountOf(i) ELSE balance

C8_WithdrawWithinBalance == [](C8_BalanceInv) /\ [][C8_WithdrawStep]_vars

\* A withdraw of the whole balance has fulfilled with its payment and left
\* zero, and a withdraw made after it has been rejected.
C8_Witness ==
    \E i, j \in CallIds :
        /\ i < j
        /\ calls[i].op = "withdraw" /\ calls[j].op = "withdraw"
        /\ calls[i].result = Fulfilled([payment |-> AmountOf(i), brand |-> "BLD"])
        /\ calls[j].pc = "done" /\ IsRejected(calls[j].result)
        /\ balance = 0

\* C9: for deposit, withdraw, executeTx, delegate, undelegate, send and
\* sendAll, a call that reached the bridge has made exactly one request of
\* it, before and after the reply; and when the bridge rejects with reason r
\* the call goes no further (no wake is asked) and its vow rejects with the
\* same r.
BridgeMethods ==
    {"deposit", "withdraw", "executeTx", "delegate", "undelegate", "send", "sendAll"}

C9_BridgeRejectionVerbatim ==
    \A i \in CallIds :
        calls[i].op \in BridgeMethods =>
            /\ Cardinality(RequestsOf(i)) =
                   (IF calls[i].op \in {"send", "sendAll"} /\ ~AllDenoms(calls[i].arg)
                    THEN 0 ELSE 1)
            /\ IsRejected(calls[i].reply) =>
                   /\ calls[i].pc \in {"turn", "done"}
                   /\ calls[i].pc = "turn" => calls[i].result = Pending
                   /\ calls[i].pc = "done" => calls[i].result = Rejected(calls[i].reply.reason)
                   /\ \A w \in 1..Len(wakeLog) : wakeLog[w].call # i

\* Each of the seven methods has a call that the bridge rejected and whose
\* vow rejected with the bridge's reason.
C9_RejectedAs(op) ==
    \E i \in CallIds :
        /\ calls[i].op = op
        /\ IsRejected(calls[i].reply)
        /\ calls[i].result = calls[i].reply
        /\ Len(bridgeLog) = 1

C9_Witness == C9_RejectedAs("undelegate")

\* ------------------------------------------------------------ transfer
Transfers == {i \in CallIds : calls[i].op = "transfer"}
LookupsOf(i) == {k \in 1..Len(hubLog) : hubLog[k].call = i}
\* Every sequence number taken from a channel is the number of a packet.
SequencesTaken(c) == nextSeq[c] - 1
PacketsOn(c) == {k \in 1..Len(packets) : packets[k].channelId = c}
\* Packet k was resolved by an inbound event with marker m.
ResolvedBy(k, m) == packets[k].by # Undefined /\ packets[k].by.marker = m

\* Packet k was resolved by an inbound event with its channel and sequence.
Matched(k) ==
    /\ packets[k].by # Undefined
    /\ packets[k].by.channelId = packets[k].channelId
    /\ packets[k].by.sequence = packets[k].sequence

\* C2: a transfer whose packet went out with sequence S on channel C, the
\* bridge not having refused it, stays unsettled until an inbound event with
\* the same C and S has come in, and it fulfils only by the acknowledgement
\* among such events; an event with another channel or sequence never
\* settles it, and the matching acknowledgement fulfils it.
C2_TransferWaitsForMatchingAck ==
    \A i \in Transfers :
        /\ calls[i].pc = "ack" => calls[i].result = Pending
        /\ IsFulfilled(calls[i].result) =>
              \E k \in PacketOf(i) : ResolvedBy(k, "none") /\ Matched(k)
        /\ IsSettled(calls[i].result) /\ PacketOf(i) # {} /\ ~ IsRejected(calls[i].dispatch) =>
              \E k \in PacketOf(i) : Matched(k)
        /\ \A k \in PacketOf(i) :
              /\ packets[k].by # Undefined =>
                    /\ packets[k].by.channelId = packets[k].channelId
                    /\ packets[k].by.sequence = packets[k].sequence
              /\ ResolvedBy(k, "none") /\ calls[i].pc = "done" => IsFulfilled(calls[i].result)

\* A transfer was fulfilled by its acknowledgement although another event had
\* come in as well.
C2_Witness ==
    \E i \in Transfers :
        /\ IsFulfilled(calls[i].result)
        /\ IsFulfilled(calls[i].dispatch)
        /\ inbound >= 2

\* C3: when the bridge signals a timeout or a remote failure for a packet that
\* transfer sent, the transfer vow is rejected with the message of the failure,
\* the timeout's own message for a timeout, and is never fulfilled.
C3_TransferFailureRejects ==
    \A i \in Transfers : \A k \in PacketOf(i) :
        /\ ResolvedBy(k, "timeout") =>
              /\ ~ IsFulfilled(calls[i].result)
              /\ calls[i].pc = "done" => calls[i].result = Rejected("packet timed out")
        /\ ResolvedBy(k, "error") =>
              /\ ~ IsFulfilled(calls[i].result)
              /\ calls[i].pc = "done" =>
                    calls[i].result = Rejected("remote chain refused the transfer")
        /\ packets[k].by = Undefined /\ IsRejected(calls[i].dispatch) =>
              /\ ~ IsFulfilled(calls[i].result)
              /\ calls[i].pc = "done" => calls[i].result = calls[i].dispatch

\* A transfer was rejected with the timeout's message.
C3_Witness ==
    \E i \in Transfers : \E k \in PacketOf(i) :
        /\ ResolvedBy(k, "timeout")
        /\ calls[i].pc = "done"
        /\ calls[i].result = Rejected("packet timed out")

\* Call i transfers a denom amount to a chain no connection is registered for.
Unconnected(i) ==
    /\ i \in Transfers
    /\ Has(calls[i].arg[1], "denom")
    /\ calls[i].arg[2].chainId \notin DOMAIN TransferChannels

\* C4: a transfer to a chain without a registered connection is rejected with
\* 'connection not found: <src><-><dst>', both chain ids named in this order;
\* no message is built for it, no sequence number is taken, and nothing of it
\* reaches the bridge.
C4_UnknownDestinationRejects ==
    /\ \A i \in CallIds : Unconnected(i) =>
          /\ calls[i].msg = Undefined
          /\ PacketOf(i) = {}
          /\ RequestsOf(i) = {}
          /\ calls[i].pc \in {"lookups", "turn", "done"}
          /\ ~ IsFulfilled(calls[i].result)
          /\ calls[i].pc = "done" =>
                calls[i].result = Rejected("connection not found: " \o state.address.chainId
                                            \o "<->" \o calls[i].arg[2].chainId)
    /\ \A c \in Channels : SequencesTaken(c) = Cardinality(PacketsOn(c))

\* The transfer to fakenet was rejected, the time helper having answered.
C4_Witness ==
    \E i \in CallIds :
        /\ Unconnected(i)
        /\ calls[i].result = Rejected("connection not found: agoriclocal<->fakenet")
        /\ IsFulfilled(calls[i].ts)
        /\ i \in timeQueries

\* Call i is a transfer of an ERTP amount.
TransfersBrand(i) == i \in Transfers /\ Has(calls[i].arg[1], "brand")

\* C6: transfer with an ERTP amount is rejected with 'ERTP Amounts not yet
\* supported' in the turn of the call: no connection is looked up, the time
\* helper is not asked, the bridge is not called, and the state of the account
\* stays as it was.
C6_ErtpAmountRejectsFirst ==
    \A i \in CallIds : TransfersBrand(i) =>
        /\ calls[i].pc = "done"
        /\ calls[i].result = Rejected("ERTP Amounts not yet supported")
        /\ LookupsOf(i) = {}
        /\ i \notin timeQueries
        /\ RequestsOf(i) = {}
        /\ PacketOf(i) = {}
        /\ state = KitInit
        /\ \A c \in Channels : SequencesTaken(c) = Cardinality(PacketsOn(c))

\* An ERTP amount was offered to a known chain without a timeout option.
C6_Witness ==
    \E i \in CallIds :
        /\ TransfersBrand(i)
        /\ calls[i].arg[2].chainId \in DOMAIN TransferChannels
        /\ calls[i].arg[3] = Undefined
        /\ calls[i].result = Rejected("ERTP Amounts not yet supported")

\* ------------------------------------------------------ monitorTransfers
Monitors == {i \in CallIds : calls[i].op = "monitorTransfers"}
\* Event e is an inbound transfer addressed to the account.
TransferToAccount(e) == e.receiverAddress = state.address.value /\ e.marker = "none"

\* monitorTransfers has returned the registration of tap t, and the
\* registration is not revoked.
Registered(t) == taps[t].active /\ IsFulfilled(calls[taps[t].call].result)

\* The vow of monitorTransfers fulfils with the registration of its tap.
C10_Registration ==
    \A i \in Monitors : calls[i].pc = "done" =>
        \E t \in 1..Len(taps) :
            /\ taps[t].call = i
            /\ calls[i].result = Fulfilled([registration |-> t])

\* No step takes a delivery back, and no event reaches a revoked tap.
C10_Kept ==
    \A t \in 1..Len(taps) :
        /\ taps'[t].count >= taps[t].count
        /\ ~ taps[t].active => taps'[t].count = taps[t].count /\ ~ taps'[t].active

\* An inbound transfer addressed to the account, unless it is routed to an
\* unresolved outbound packet, invokes every active tap once.
C10_Delivered ==
    \A e \in MonitoredEvents :
        TransferToAccount(e) /\ Matching(e) = {} /\ InboundEvent(e) =>
        \A t \in 1..Len(taps) : Registered(t) => taps'[t].count = taps[t].count + 1

C11_SecondRevoke ==
    \A t \in 1..Len(taps) : ~ taps[t].active /\ revoke(t) =>
        /\ taps' = [taps EXCEPT ![t].revokes = Counted(@)]
        /\ UNCHANGED <<packets, calls, nextSeq, bridgeLog>>

\* C11: revoking a revoked registration does not throw and leaves the other
\* taps, the outbound packets and the inactive status of the revoked tap as
\* the first revoke left them.
C11_RevokeIdempotent ==
    [](\A t \in 1..Len(taps) : ~ taps[t].threw) /\ [][C11_SecondRevoke]_vars

\* A registration was revoked twice while another tap was active.
C11_Witness ==
    \E t, u \in 1..Len(taps) :
        /\ taps[t].revokes = 2
        /\ ~ taps[t].active
        /\ taps[u].active

Invoked(h) == \E w \in 1..Len(registrations) :
                  registrations[w].handler = h /\ registrations[w].runs > 0

\* No watcher is invoked twice, or before F settles, or with anything but
\* the outcome of F.
C13_OnceWithOutcome ==
    \A w \in 1..Len(registrations) :
        /\ registrations[w].runs <= 1
        /\ registrations[w].runs = 1 => IsSettled(F) /\ registrations[w].saw = F
        /\ registrations[w].runs = 0 => registrations[w].saw = Pending

\* C13: two watchers on the same vow F, attached before or after F settles,
\* are both invoked once F has settled, each once, with the outcome of F.
C13_FanOut ==
    /\ [](C13_OnceWithOutcome)
    /\ \A h \in Handlers : (Attached(h) /\ IsSettled(F)) ~> Invoked(h)

\* Both watchers saw the outcome of F, one attached before it settled and one
\* after.
C13_Witness ==
    /\ IsSettled(F)
    /\ Len(registrations) = 2
    /\ \A w \in 1..2 : registrations[w].runs = 1 /\ registrations[w].saw = F
    /\ ~ registrations[1].late
    /\ registrations[2].late

\* ------------------------------------------------------ the chain facade
\* The calls this step has made.
Fresh == (Len(calls) + 1)..Len(calls')
Facade(op) == {i \in CallIds : calls[i].op = op}

\* A step that calls getChainInfo or makeAccount returns a pending vow and
\* runs no watcher: nothing is asked of the storage node, no kit is made.
C14_CallReturnsPending ==
    \A i \in Fresh :
        calls'[i].op \in {"getChainInfo", "makeAccount"} =>
            /\ calls'[i].result = Pending
            /\ calls'[i].pc # "done"
            /\ storageLog' = storageLog
            /\ kits' = kits

\* C14: watch never runs a watcher in the turn of the call to watch; the vow
\* of getChainInfo, which watches a value that is already there, is pending
\* when the call returns and fulfils with localChainInfo in a later turn.
C14_WatchIsNeverSynchronous ==
    /\ [][C14_CallReturnsPending]_vars
    /\ [](\A i \in Facade("getChainInfo") :
              IsSettled(calls[i].result) => calls[i].result = Fulfilled(facade.localChainInfo))

\* A vow of getChainInfo has fulfilled with the chain info, in a turn after
\* the call.
C14_Witness ==
    \E i \in Facade("getChainInfo") :
        calls[i].pc = "done" /\ calls[i].result = Fulfilled(LocalChainInfo)

\* -------------------------------------------------------------- allVows
\* The watcher on call i's allVows has run.
MakeAccountWatcherRan(i) == \E k \in 1..Len(storageLog) : storageLog[k].call = i
TransferWatcherRan(i) == calls[i].msg # Undefined

\* What call i's allVows has settled to, once it has: calls[i].reply until
\* the watcher replaces it.
C15_MakeAccount(i) ==
    /\ IsRejected(calls[i].lca) =>
           /\ calls[i].pc \in {"turn", "done"}
           /\ calls[i].reply = calls[i].lca
           /\ calls[i].pc = "done" => calls[i].result = calls[i].lca
    /\ IsRejected(calls[i].address) =>
           /\ calls[i].pc \in {"turn", "done"}
           /\ calls[i].reply = calls[i].address
           /\ calls[i].pc = "done" => calls[i].result = calls[i].address
    /\ Queued(i, "makeAccountWatcher") \/ MakeAccountWatcherRan(i) =>
           IsFulfilled(calls[i].lca) /\ IsFulfilled(calls[i].address)
    /\ Queued(i, "makeAccountWatcher") =>
           calls[i].reply.value = <<calls[i].lca.value, calls[i].address.value>>
    /\ MakeAccountWatcherRan(i) =>
           \A k \in 1..Len(storageLog) :
               storageLog[k].call = i => storageLog[k].arg = calls[i].address.value

C15_Transfer(i) ==
    /\ IsRejected(calls[i].conn) =>
           /\ calls[i].pc \in {"turn", "done"}
           /\ calls[i].reply = calls[i].conn
           /\ calls[i].pc = "done" => calls[i].result = calls[i].conn
           /\ ~ TransferWatcherRan(i)
    /\ Queued(i, "transferWatcher") \/ TransferWatcherRan(i) =>
           IsFulfilled(calls[i].conn) /\ IsFulfilled(calls[i].ts)
    /\ Queued(i, "transferWatcher") =>
           calls[i].reply.value = [connectionInfo |-> calls[i].conn.value,
                                   timeoutTimestamp |-> calls[i].ts.value]

\* C15: allVows rejects with the first rejection's reason without waiting for
\* the other inputs and otherwise fulfils with the values in input order once
\* all have fulfilled; so transferWatcher runs only when the connection info
\* and the timeout are both there, and makeAccountWatcher only when the
\* account and its address are.
C15_AllVowsGathers ==
    /\ \A i \in Facade("makeAccount") : C15_MakeAccount(i)
    /\ \A i \in Transfers : Has(calls[i], "conn") => C15_Transfer(i)

\* One transfer was rejected for its connection while the time helper had not
\* answered; one makeAccount had its watcher run on account and address.
C15_Witness ==
    /\ \E i \in Transfers :
           /\ Has(calls[i], "conn")
           /\ IsRejected(calls[i].conn) /\ calls[i].ts = Pending
           /\ calls[i].pc = "done" /\ calls[i].result = calls[i].conn
    /\ \E i \in Facade("makeAccount") :
           MakeAccountWatcherRan(i) /\ IsFulfilled(calls[i].address)

\* ------------------------------------------------------ the kit's making
\* The kit behind a holder the facade has delivered.
Delivered(i) == calls[i].pc = "done" /\ IsFulfilled(calls[i].result)
HasPacketTools(k) ==
    /\ k \in 1..Len(kits)
    /\ kits[k].packetTools # Undefined
    /\ kits[k].packetTools.account = kits[k].account

\* C16: the packet tools are made while the kit is, in the step that fixes its
\* account state; a holder that makeAccount has fulfilled with is the holder
\* of a kit whose packet tools exist, over the account localchain made.
C16_PacketToolsMadeWithKit ==
    /\ \A k \in 1..Len(kits) : HasPacketTools(k)
    /\ \A i \in Facade("makeAccount") :
           Delivered(i) =>
               /\ HasPacketTools(calls[i].result.value.holder)
               /\ kits[calls[i].result.value.holder].account = calls[i].lca.value
               /\ kits[calls[i].result.value.holder].address.value = calls[i].address.value

\* makeAccount has fulfilled with the holder of a kit that has its packet tools.
C16_Witness ==
    \E i \in Facade("makeAccount") :
        Delivered(i) /\ HasPacketTools(calls[i].result.value.holder)

\* ------------------------------------------------ sequence before dispatch
\* The MsgTransfer requests the bridge has been handed.
Dispatched == {b \in 1..Len(bridgeLog) :
                  /\ IsCall(bridgeLog[b].call, "transfer")
                  /\ bridgeLog[b].arg = <<calls[bridgeLog[b].call].msg>>}
AckOf(k) == [receiverAddress |-> packets[k].payload.receiver,
             channelId |-> packets[k].channelId, sequence |-> packets[k].sequence,
             marker |-> "none"]

\* The packet of a dispatched message is on record, under a sequence number
\* its channel has handed out, with the message as its payload.
C17_RecordedWhenDispatched ==
    \A b \in Dispatched :
        \E k \in PacketOf(bridgeLog[b].call) :
            /\ packets[k].payload = bridgeLog[b].arg[1]
            /\ packets[k].channelId = bridgeLog[b].arg[1].sourceChannel
            /\ packets[k].sequence \in 1..SequencesTaken(packets[k].channelId)

\* From the state the dispatch leaves, the acknowledgement of an unresolved
\* packet is routed to it and fulfils its future, whether or not the bridge
\* has answered the dispatch.
C17_AckFindsPacket ==
    \A k \in 1..Len(packets) :
        Unresolved(k) =>
            ENABLED (/\ InboundEvent(AckOf(k))
                     /\ packets'[k].resolution = Fulfilled(Undefined)
                     /\ calls'[packets[k].call].pc = "turn"
                     /\ calls'[packets[k].call].reply = Fulfilled(Undefined))

NotImplemented == {"getBalances", "transferSteps", "query"}
Asked(i) ==
    \/ \E b \in 1..Len(bridgeLog) : bridgeLog[b].call = i
    \/ \E h \in 1..Len(hubLog) : hubLog[h].call = i
    \/ \E k \in 1..Len(storageLog) : storageLog[k].call = i
    \/ i \in timeQueries

\* The step that makes one of these calls asks nothing of the bridge, the
\* chain hub, the storage node or the time helper.
C19_AsksNothing ==
    \A i \in Fresh :
        calls'[i].op \in NotImplemented \cup {"CloseAccount"} =>
            /\ bridgeLog' = bridgeLog
            /\ hubLog' = hubLog
            /\ storageLog' = storageLog
            /\ timeQueries' = timeQueries

\* C19: getBalances, transferSteps and the facade's query return a vow that
\* has rejected with 'not yet implemented', they do not throw, and nothing is
\* asked of the bridge; the CloseAccount invitation maker throws 'not yet
\* implemented' to its caller.
C19_NotYetImplemented ==
    /\ [][C19_AsksNothing]_vars
    /\ [](\A i \in CallIds :
              /\ calls[i].op \in NotImplemented =>
                     /\ calls[i].result = Rejected("not yet implemented")
                     /\ ~ Asked(i)
              /\ calls[i].op = "CloseAccount" =>
                     /\ calls[i].result = Threw("not yet implemented")
                     /\ ~ Asked(i))

\* getBalances has returned its rejected vow and CloseAccount has thrown,
\* while the bridge has been asked by another call.
C19_Witness ==
    /\ \E i \in CallIds : calls[i].op = "getBalances" /\ IsRejected(calls[i].result)
    /\ \E i \in CallIds : calls[i].op = "CloseAccount" /\ calls[i].result.status = "threw"
    /\ \E i \in CallIds : Asked(i)

\* ------------------------------------------------------- the public topics
TopicCalls == {i \in CallIds : calls[i].op \in {"getPublicTopics", "asContinuingOffer"}}
TheTopics == [account |-> [description |-> TopicDescription, subscriber |-> state.topicKit,
                           storagePath |-> StoragePath]]
\* This step is a delivery from outside: a bridge reply, a timer wake or an
\* inbound packet event.
Delivery ==
    \/ \E j \in CallIds : calls[j].pc \in {"bridge", "timer"} /\ calls'[j].pc # calls[j].pc
    \/ inbound' # inbound

C20_ReturnsPending ==
    \A i \in Fresh :
        calls'[i].op \in {"getPublicTopics", "asContinuingOffer"} =>
            /\ calls'[i].pc = "await"
            /\ calls'[i].reply = Pending
            /\ calls'[i].result = Pending

\* While a call for the topics is pending no delivery takes place.
C20_NoDeliveryMeanwhile == (\E i \in TopicCalls : calls[i].pc # "done") => ~ Delivery

Due(i) ==
    \/ calls[i].pc \in {"turn", "woken"}
    \/ Awaiting(i) /\ (calls[i].pc = "when" => calls[calls[i].wakeAt].pc = "done")
    \/ calls[i].pc = "offer" /\ calls[calls[i].wakeAt].pc = "done"
WatcherFacets == {"returnVoidWatcher", "extractFirstResultWatcher", "undelegateWatcher",
                  "getBalanceWatcher", "transferWatcher"}

C18_RestartKeeps ==
    /\ incarnation' # incarnation => calls' = calls
    /\ \A i \in CallIds :
           IsSettled(calls[i].result) =>
               calls'[i].result = calls[i].result /\ calls'[i].pc = calls[i].pc

\* What is pending when a run has ended waits in a watch: on a named watcher
\* facet that the call's record names, or on a plain watch.
C18_PendingIsWatched ==
    RunEnded =>
        \A i \in CallIds :
            calls[i].pc # "done" =>
                /\ calls[i].pc \in {"bridge", "turn", "timer", "woken", "lookups",
                                    "packetTools", "ack", "offer"}
                /\ calls[i].watcher \in WatcherFacets \cup {"none"}
                /\ calls[i].op \notin {"getPublicTopics", "asContinuingOffer"}

AssetCalls == {i \in CallIds : calls[i].op = "getVBankAssetInfo"}
\* The lookups that agoricNames has not rejected.
LiveLookups == {k \in 1..Len(namesLog) : ~ IsRejected(calls[namesLog[k]].reply)}

\* C21: over any sequence of getVBankAssetInfo calls on one facade, calls made
\* while the first lookup is pending included, agoricNames.lookup is issued
\* at most once (a rejected lookup aside, which caches nothing).
C21_LookupAtMostOnce == Cardinality(LiveLookups) <= 1

\* C27: once a call has fulfilled with a list A, every call made afterwards
\* is fulfilled with the same A and issues no lookup; a call made after a
\* rejected lookup, with nothing cached, issues a lookup again.
C27_CacheIsStable ==
    [][\A j \in Fresh :
           calls'[j].op = "getVBankAssetInfo" =>
               /\ \A i \in AssetCalls :
                      IsFulfilled(calls[i].result) =>
                          /\ calls'[j].result = calls[i].result
                          /\ namesLog' = namesLog
               /\ ~ Cached => namesLog' = Append(namesLog, j)]_vars

\* ------------------------------------------------------ matchFirstPacket
MatchCalls == {i \in CallIds : calls[i].op = "matchFirstPacket"}
\* Call i is registered with the packet tools and has seen no match yet.
Watching(i) == i \in MatchCalls /\ calls[i].pc = "match"
\* Event e is offered to watcher i: it is not routed to an outbound packet,
\* and no watcher registered before i is there to win it.
OfferedTo(i, e) ==
    /\ Matching(e) = {}
    /\ Matches(calls[i].arg[1], e)
    /\ \A j \in 1..(i - 1) : ~ (Watching(j) /\ Matches(calls[j].arg[1], e))

\* The vow of matchFirstPacket never rejects, and what it fulfils with is an
\* event that matches the caller's pattern.
C22_FulfilsWithAMatch ==
    \A i \in MatchCalls :
        /\ ~ IsRejected(calls[i].result)
        /\ IsFulfilled(calls[i].result) =>
              /\ calls[i].result = calls[i].reply
              /\ calls[i].result.value \in Events
              /\ Matches(calls[i].arg[1], calls[i].result.value)

\* No later event replaces the one a watcher has been settled with.
C22_NoLaterOne ==
    \A i \in MatchCalls :
        /\ calls[i].reply # Pending => calls'[i].reply = calls[i].reply
        /\ calls[i].result # Pending => calls'[i].result = calls[i].result

\* A watcher is settled by the first event offered to it, and by nothing else.
C22_FirstOffered ==
    \A i \in MatchCalls :
        /\ Watching(i) /\ calls'[i].reply # Pending =>
              \E e \in MatchedEvents :
                  /\ InboundEvent(e)
                  /\ Matching(e) = {}
                  /\ Matches(calls[i].arg[1], e)
                  /\ calls'[i].reply = Fulfilled(e)
        /\ Watching(i) /\ inbound' # inbound =>
              \A e \in MatchedEvents :
                  OfferedTo(i, e) /\ InboundEvent(e) => calls'[i].reply = Fulfilled(e)

\* An event that settles a watcher is delivered to the taps all the same.
C22_TapsStillSee ==
    inbound' # inbound =>
        \A e \in MatchedEvents :
            Matchers(e) # {} /\ Matching(e) = {} /\ InboundEvent(e) =>
                \A t \in Offered(e) : taps'[t].count = taps[t].count + 1

\* What resolves an outbound packet leaves the watchers alone, and what
\* settles a watcher leaves the packets and the transfers alone.
C22_Independent ==
    /\ (\E k \in 1..Len(packets) : packets'[k].resolution # packets[k].resolution) =>
           \A i \in MatchCalls : calls'[i] = calls[i]
    /\ (\E i \in MatchCalls : calls'[i].reply # calls[i].reply) =>
           /\ packets' = packets
           /\ \A j \in CallIds : calls[j].op = "transfer" => calls'[j] = calls[j]

Built == {i \in CallIds : calls[i].op = "transfer" /\ Has(calls[i], "msg")
                          /\ calls[i].msg # Undefined}
OptsOf(i) == calls[i].arg[3]
NoHeight == [revisionHeight |-> 0, revisionNumber |-> 0]

\* The time service is asked when the transfer is called with neither a
\* timeoutTimestamp nor a timeoutHeight, and only then.
C23_AsksTimeOnlyWithoutTimeout ==
    \A i \in CallIds : calls[i].op = "transfer" /\ Has(calls[i], "ts") =>
        (i \in timeQueries <=>
            ~ Has(OptsOf(i), "timeoutTimestamp") /\ ~ Has(OptsOf(i), "timeoutHeight"))

\* What the message carries, by the options of the call.
C23_MessageFields ==
    \A i \in Built :
        /\ Has(OptsOf(i), "timeoutTimestamp") =>
               calls[i].msg.timeoutTimestamp = OptsOf(i).timeoutTimestamp
        /\ ~ Has(OptsOf(i), "timeoutTimestamp") /\ Has(OptsOf(i), "timeoutHeight") =>
               calls[i].msg.timeoutTimestamp = 0
        /\ ~ Has(OptsOf(i), "timeoutTimestamp") /\ ~ Has(OptsOf(i), "timeoutHeight") =>
               /\ i \in timeQueries
               /\ calls[i].ts = Fulfilled(calls[i].msg.timeoutTimestamp)
        /\ calls[i].msg.timeoutHeight =
               IF Has(OptsOf(i), "timeoutHeight") THEN OptsOf(i).timeoutHeight ELSE NoHeight
        /\ calls[i].msg.memo = IF Has(OptsOf(i), "memo") THEN OptsOf(i).memo ELSE ""

\* The time service answers with its current time plus five minutes, and the
\* answer is not replaced.
C23_FiveMinutesFromNow ==
    \A i \in CallIds : calls[i].op = "transfer" /\ Has(calls[i], "ts") =>
        /\ i \in timeQueries /\ calls[i].ts = Pending /\ calls'[i].ts # Pending =>
               calls'[i].ts = Fulfilled(now + FiveMinutes)
        /\ calls[i].ts # Pending => calls'[i].ts = calls[i].ts

Undelegates == {i \in CallIds : calls[i].op = "undelegate"}
WakesOf(i) == {k \in 1..Len(wakeLog) : wakeLog[k].call = i}
\* The reply call i is left with is a rejection with one of these reasons.
RejectedWith(i, reasons) ==
    IsRejected(calls[i].reply) /\ calls[i].reply.reason \in reasons

\* A wake is requested in the turn of undelegateWatcher, which runs on the
\* bridge's fulfilled reply to the call's executeTx, and only once per call.
C24_WakeAfterReply ==
    wakeLog' # wakeLog =>
        \E i \in Undelegates :
            /\ calls[i].pc = "turn"
            /\ IsFulfilled(calls[i].reply)
            /\ \E k \in 1..Len(bridgeLog) :
                   bridgeLog[k].call = i /\ bridgeLog[k].method = "executeTx"
            /\ WakesOf(i) = {}
            /\ Len(wakeLog') = Len(wakeLog) + 1
            /\ wakeLog'[Len(wakeLog')].call = i

\* After a rejection by the bridge no wake is requested, and the vow settles
\* as that rejection; after a rejection of the wakeAt the vow settles as a
\* rejection too, never fulfilled.
C24_Rejections ==
    \A i \in Undelegates :
        /\ RejectedWith(i, BridgeErrors) =>
               /\ WakesOf(i) = {}
               /\ calls[i].pc \in {"turn", "done"}
               /\ calls[i].result = IF calls[i].pc = "done" THEN calls[i].reply ELSE Pending
        /\ RejectedWith(i, TimerErrors) =>
               /\ WakesOf(i) # {}
               /\ calls[i].pc \in {"turn", "done"}
               /\ calls[i].result = IF calls[i].pc = "done" THEN calls[i].reply ELSE Pending

\* A rejection is final: the call is never taken up again.
C24_RejectionStays ==
    \A i \in Undelegates :
        IsRejected(calls[i].reply) =>
            /\ calls'[i].reply = calls[i].reply
            /\ calls'[i].pc \in {calls[i].pc, "done"}

\* C24: the wake of undelegate is requested only after the bridge's reply to
\* executeTx has been received; if executeTx rejects, undelegate rejects with
\* that reason and no wakeAt is ever requested; if the wakeAt itself rejects,
\* undelegate rejects and does not fulfil.
C24_WakeOnlyAfterExecuteTx ==
    /\ [](C24_Rejections)
    /\ [][C24_WakeAfterReply /\ C24_RejectionStays]_vars

\* One undelegate was rejected by the bridge, another by the timer service
\* after its wake had been requested; both vows have rejected.
C24_Witness ==
    \E i, j \in Undelegates :
        /\ RejectedWith(i, BridgeErrors) /\ IsRejected(calls[i].result)
        /\ RejectedWith(j, TimerErrors) /\ IsRejected(calls[j].result)
        /\ WakesOf(j) # {}

\* ------------------------------------------------- the steps of makeAccount
MakeAccounts == {i \in CallIds : calls[i].op = "makeAccount"}
ChildNodeRequests(i) == {k \in 1..Len(storageLog) : storageLog[k].call = i}
\* The kits made for call i: a kit holds the account localchain made for it.
KitsOf(i) == {k \in 1..Len(kits) : kits[k].account = [lca |-> i]}
\* holder.getAddress() of kit k
HolderAddress(k) == kits[k].address

\* The child node is requested once makeAccount() and getAddress() have both
\* fulfilled, under the address getAddress() gave.
C25_ChildNodeAfterBoth ==
    storageLog' # storageLog =>
        \E i \in MakeAccounts :
            /\ IsFulfilled(calls[i].lca) /\ IsFulfilled(calls[i].address)
            /\ ChildNodeRequests(i) = {}
            /\ storageLog' = Append(storageLog, [method |-> "makeChildNode",
                                                 arg |-> calls[i].address.value, call |-> i])

\* The kit is made once the child node is there, from the account, the
\* address and the node; the vow fulfils with its holder.
C25_KitAfterChildNode ==
    kits' # kits =>
        \E i \in MakeAccounts :
            /\ ChildNodeRequests(i) # {}
            /\ calls[i].watcher = "makeChildNodeWatcher" /\ IsFulfilled(calls[i].reply)
            /\ KitsOf(i) = {}
            /\ Len(kits') = Len(kits) + 1
            /\ \A k \in 1..Len(kits) : kits'[k] = kits[k]
            /\ kits'[Len(kits')].account = calls[i].lca.value
            /\ kits'[Len(kits')].topicKit.storageNode = calls[i].reply.value
            /\ calls'[i].result = Fulfilled([holder |-> Len(kits')])

\* The address of the holder a makeAccount fulfilled with.
C25_HolderAddress ==
    \A i \in MakeAccounts : IsFulfilled(calls[i].result) =>
        /\ calls[i].result.value.holder \in KitsOf(i)
        /\ HolderAddress(calls[i].result.value.holder) =
               [value |-> calls[i].address.value, encoding |-> "bech32",
                chainId |-> LocalChainInfo.chainId]

\* C25: makeAccount proceeds in order: the child storage node is requested
\* only after makeAccount() and getAddress() have both fulfilled, the kit is
\* built only after the child node is obtained, and the holder's getAddress()
\* is {value: address, encoding: 'bech32', chainId: localChainInfo.chainId}.
C25_MakeAccountInOrder ==
    /\ [](C25_HolderAddress)
    /\ [][C25_ChildNodeAfterBoth /\ C25_KitAfterChildNode]_vars

\* Two accounts have been made, each with its own kit.
C25_Witness ==
    \E i, j \in MakeAccounts :
        /\ i # j
        /\ IsFulfilled(calls[i].result) /\ IsFulfilled(calls[j].result)
        /\ Len(kits) = 2

\* The step of makeAccount call i that rejected, if one did.
RejectedStep(i) ==
    IF IsRejected(calls[i].lca) THEN "localchain"
    ELSE IF IsRejected(calls[i].address) THEN "address"
    ELSE IF ChildNodeRequests(i) # {} /\ IsRejected(calls[i].reply) THEN "storage"
    ELSE "none"

\* After a rejected step no kit exists for the call, the steps after it have
\* not been taken, and the vow is pending or rejected with the step's reason.
C26_StopsAtRejection ==
    \A i \in MakeAccounts : RejectedStep(i) # "none" =>
        /\ KitsOf(i) = {}
        /\ RejectedStep(i) = "localchain" => calls[i].address = Pending
        /\ RejectedStep(i) \in {"localchain", "address"} => ChildNodeRequests(i) = {}
        /\ calls[i].reply = Rejected(MakeAccountErrors[RejectedStep(i)])
        /\ calls[i].pc \in {"turn", "done"}
        /\ calls[i].result = IF calls[i].pc = "done" THEN calls[i].reply ELSE Pending

\* A makeAccount that has rejected stays as it is.
C26_StaysRejected ==
    \A i \in MakeAccounts : IsRejected(calls[i].result) => calls'[i] = calls[i]

\* C26: if localchain.makeAccount(), getAddress() or makeChildNode() rejects,
\* the vow of makeAccount rejects with that reason, no kit is created, and no
\* later step is attempted.
C26_MakeAccountRejects ==
    /\ [](C26_StopsAtRejection)
    /\ [][C26_StaysRejected]_vars

\* One makeAccount has rejected at getAddress, another at makeChildNode.
C26_Witness ==
    \E i, j \in MakeAccounts :
        /\ RejectedStep(i) = "address" /\ IsRejected(calls[i].result)
        /\ RejectedStep(j) = "storage" /\ IsRejected(calls[j].result)
        /\ kits = <<>>

\* ---------------------------------------------- what the bank methods return
VoidMethods == {"deposit", "send", "sendAll"}
ReplyMethods == {"withdraw", "executeTx"}
\* The bridge has fulfilled the request of call i and the vow has settled.
Answered(i) == calls[i].pc = "done" /\ IsFulfilled(calls[i].reply)

\* C28: deposit, send and sendAll fulfil with undefined whatever the bridge
\* has replied; withdraw and executeTx fulfil with the bridge's reply
\* unchanged; and none of them settles before the bridge has replied.
C28_VoidOrReply ==
    \A i \in CallIds :
        /\ calls[i].op \in VoidMethods /\ Answered(i) =>
               calls[i].result = Fulfilled(Undefined)
        /\ calls[i].op \in ReplyMethods /\ Answered(i) =>
               calls[i].result = calls[i].reply
        /\ calls[i].op \in VoidMethods \cup ReplyMethods /\ calls[i].pc \in {"bridge", "turn"} =>
               calls[i].result = Pending

\* send has fulfilled with undefined although the bridge replied with two
\* results.
C28_Witness ==
    \E i \in CallIds :
        /\ calls[i].op = "send"
        /\ Answered(i)
        /\ Len(calls[i].reply.value.results) = 2
        /\ calls[i].result = Fulfilled(Undefined)

\* ------------------------------------------------------------ getBalance
BalanceCalls == {i \in CallIds : calls[i].op = "getBalance"}
BalanceQueries(i) ==
    {k \in 1..Len(bridgeLog) : bridgeLog[k].call = i /\ bridgeLog[k].method = "getBalance"}

\* C29: getBalance(denom) issues one balance query to the bridge and nothing
\* else; when the bridge answers with an amount the vow fulfils with
\* {denom, value}, the denom being the one the caller passed and the value
\* the value of that amount; when the bridge rejects, the vow rejects alike.
C29_DenomAndValue ==
    \A i \in BalanceCalls :
        /\ Cardinality(BalanceQueries(i)) = 1
        /\ \A k \in 1..Len(bridgeLog) : bridgeLog[k].call = i => k \in BalanceQueries(i)
        /\ calls[i].pc \in {"bridge", "turn"} => calls[i].result = Pending
        /\ calls[i].pc = "done" /\ IsRejected(calls[i].reply) =>
               calls[i].result = calls[i].reply
        /\ calls[i].pc = "done" /\ IsFulfilled(calls[i].reply)
              /\ Has(calls[i].arg[1], "denom") =>
               calls[i].result = Fulfilled([denom |-> calls[i].arg[1].denom,
                                            value |-> calls[i].reply.value.value])

\* getBalance('ubld') has fulfilled with a balance that a deposit had raised.
C29_Witness ==
    \E i \in BalanceCalls :
        /\ calls[i].arg = <<[denom |-> "ubld"]>>
        /\ IsFulfilled(calls[i].result)
        /\ calls[i].result.value.denom = "ubld"
        /\ calls[i].result.value.value > 0

\* ------------------------------------------------- who a message is from
\* The requests to execute messages that the bridge has received.
Executions == {k \in 1..Len(bridgeLog) : bridgeLog[k].method = "executeTx"}
\* The address a message names as the one it comes from.
Originator(msg) ==
    IF msg.type \in {"/cosmos.staking.v1beta1.MsgDelegate",
                     "/cosmos.staking.v1beta1.MsgUndelegate"} THEN msg.delegatorAddress
    ELSE IF msg.type = "/cosmos.bank.v1beta1.MsgSend" THEN msg.fromAddress
    ELSE msg.sender
\* The type of the message each method builds.
Builds ==
    [delegate |-> "/cosmos.staking.v1beta1.MsgDelegate",
     undelegate |-> "/cosmos.staking.v1beta1.MsgUndelegate",
     send |-> "/cosmos.bank.v1beta1.MsgSend",
     sendAll |-> "/cosmos.bank.v1beta1.MsgSend",
     transfer |-> "/ibc.applications.transfer.v1.MsgTransfer"]

\* C30: every message that delegate, undelegate, send, sendAll and transfer
\* build and send to the bridge names the address the account was created
\* with as its originator (delegatorAddress, fromAddress, sender), for
\* every call and every argument; the account's address never changes.
C30_BuiltMessagesNameTheAccount ==
    /\ state.address = TheAddress
    /\ \A k \in Executions :
           calls[bridgeLog[k].call].op \in DOMAIN Builds =>
               /\ Len(bridgeLog[k].arg) = 1
               /\ bridgeLog[k].arg[1].type = Builds[calls[bridgeLog[k].call].op]
               /\ Originator(bridgeLog[k].arg[1]) = TheAddress.value

\* A transfer and a send have both reached the bridge.
C30_Witness ==
    /\ \E k \in Executions : calls[bridgeLog[k].call].op = "transfer"
    /\ \E k \in Executions : calls[bridgeLog[k].call].op \in {"send", "sendAll"}

\* C30 as it was stated: every message the bridge is asked to execute names
\* the account's address as its originator.
C30_EveryMessageNamesTheAccount ==
    \A k \in Executions :
        \A n \in 1..Len(bridgeLog[k].arg) :
            Originator(bridgeLog[k].arg[n]) = TheAddress.value

\* ------------------------------------------------ the state of the account
\* The operations that have settled as a failure.
FailedCalls == {i \in CallIds : calls[i].pc = "done" /\ IsRejected(calls[i].result)}

\* C31: no holder operation changes the state of the account: account,
\* address, topicKit and packetTools stay what they were made when the
\* account was created, and getAddress() returns the same ChainAddress before
\* and after every operation, the failing ones included.
C31_StateIsFixed ==
    /\ [](state = KitInit /\ getAddress = TheAddress)
    /\ [][state' = state /\ getAddress' = getAddress]_vars

\* A send or a transfer has failed, and the address is what it was.
C31_Witness ==
    /\ \E i \in CallIds : calls[i].op \in {"send", "sendAll", "transfer"} /\ i \in FailedCalls
    /\ getAddress = TheAddress

\* ---------------------------------------------- the offers and their seats
Offers == {o \in CallIds : calls[o].op = "offer"}
\* The call of the holder operation that offer o made.
InnerOf(o) == calls[o].wakeAt
\* The places in the bridge's log of the requests the operation of o issued.
RequestsFor(o) == {k \in 1..Len(bridgeLog) : bridgeLog[k].call = InnerOf(o)}

\* The seat of an offer is exited, and every request the operation sends to
\* the bridge comes after the exit.
C32_ExitsFirst ==
    \A o \in Offers :
        /\ calls[o].seat.exited
        /\ \A k \in RequestsFor(o) : k >= calls[o].seat.before

\* The offer result is pending while the operation is, and is the outcome of
\* the operation once that has settled.
C32_Adopts ==
    \A o \in Offers :
        /\ calls[InnerOf(o)].op \in {"delegate", "undelegate", "send", "sendAll", "transfer"}
        /\ calls[InnerOf(o)].pc # "done" => calls[o].result = Pending
        /\ calls[o].pc = "done" =>
               /\ calls[InnerOf(o)].pc = "done"
               /\ calls[o].result = calls[InnerOf(o)].result

\* Nothing takes the exit back, and a settled offer result stays.
C32_StaysExited ==
    \A o \in Offers :
        /\ calls'[o].seat = calls[o].seat
        /\ calls[o].result # Pending => calls'[o].result = calls[o].result

\* C32: for the Delegate, Undelegate, Send, SendAll and Transfer invitations
\* the offer handler exits the seat before the holder operation issues any
\* bridge call, the offer result adopts the outcome of that operation, and the
\* seat stays exited also when the operation later rejects.
C32_SeatExitsThenAdopts ==
    /\ [](C32_ExitsFirst /\ C32_Adopts)
    /\ [][C32_StaysExited]_vars

\* The bridge has rejected the operation of an offer: the offer result is
\* that rejection and the seat is exited.
C32_Witness ==
    \E o \in Offers :
        /\ RequestsFor(o) # {}
        /\ IsRejected(calls[o].result)
        /\ calls[o].result.reason \in BridgeErrors \cup TransferErrors
        /\ calls[o].seat.exited

\* ------------------------------------------------ the contract account
\* The calls of makeAccount that did not reject.
LiveAccounts ==
    {k \in 1..Len(accountLog) :
        offers[accountLog[k]].result \notin {Rejected(r) : r \in AccountErrors}}
\* The accounts the offers have deposited into or transferred from.
AccountsUsed ==
    {offers[s].into : s \in {t \in Seats : offers[t].into # 0}}
        \cup {offers[s].from : s \in {t \in Seats : offers[t].from # 0}}

\* C33: across any interleaving of sendIt offers, offers that overlap while
\* the first makeAccount is pending included, agoricChain.makeAccount() is
\* called at most once (a rejected call aside) and every offer deposits into
\* and transfers from the same account.
C33_OneContractAccount ==
    /\ Cardinality(LiveAccounts) <= 1
    /\ Cardinality(AccountsUsed) <= 1

\* ------------------------------------------------- the steps of sendIt
\* The offers whose function has called contractAccount.transfer.
Transferring == {s \in Seats : offers[s].transferCall # 0}
\* Why an offer fails before its transfer: the brand lookup, the chain lookup,
\* the account creation, the seat withdrawal or the deposit rejected.
EarlyReasons ==
    BrandErrors \cup ChainErrors \cup AccountErrors \cup SeatErrors \cup PaymentErrors
        \cup BridgeErrors
DepositRejected(s) ==
    /\ offers[s].depositCall # 0
    /\ IsRejected(calls[offers[s].depositCall].result)

C34_TransferAfterDeposit ==
    \A s \in Seats :
        offers'[s].transferCall # offers[s].transferCall =>
            /\ offers[s].depositCall # 0
            /\ IsFulfilled(calls[offers[s].depositCall].result)
            /\ offers'[s].transferCall = Len(calls')
            /\ calls'[Len(calls')].op = "transfer"
C34_NoTransferWithoutOffer ==
    Cardinality({i \in CallIds : calls[i].op = "transfer"}) = Cardinality(Transferring)
C34_FailsWithThatReason ==
    \A s \in Seats :
        /\ DepositRejected(s) =>
              /\ s \notin Transferring
              /\ offers[s].pc = "done" => offers[s].result = calls[offers[s].depositCall].result
        /\ (IsRejected(offers[s].result) /\ offers[s].result.reason \in EarlyReasons) =>
              /\ offers[s].pc = "done"
              /\ s \notin Transferring

\* C34: in sendIt, contractAccount.transfer is called only after the deposit
\* of the payment withdrawn from the seat has fulfilled; if the brand lookup,
\* the chain lookup, the account creation, the seat withdrawal or the deposit
\* rejects, no transfer is issued and the offer fails with that reason.
C34_TransferOnlyAfterDeposit ==
    /\ [](C34_NoTransferWithoutOffer /\ C34_FailsWithThatReason)
    /\ [][C34_TransferAfterDeposit]_vars

\* One offer has called transfer after its deposit fulfilled, and the other
\* has failed with the reason its deposit rejected with.
C34_Witness ==
    \E s, t \in Seats :
        /\ s \in Transferring
        /\ IsFulfilled(calls[offers[s].depositCall].result)
        /\ DepositRejected(t)
        /\ offers[t].pc = "done"
        /\ offers[t].result = calls[offers[t].depositCall].result

\* ------------------------------------------- the transfer sendIt issues
\* The offers whose transfer has had its MsgTransfer built.
Addressed == {s \in Transferring : calls[offers[s].transferCall].msg # Undefined}
\* The connection lookup the chain hub received for the transfer of offer s.
LookupsFor(s) == {k \in 1..Len(hubLog) : hubLog[k].call = offers[s].transferCall}

C35_Receiver ==
    \A s \in Addressed :
        calls[offers[s].transferCall].msg.receiver = offers[s].offerArgs.destAddr
C35_Connection ==
    \A s \in Transferring :
        /\ LookupsFor(s) # {}
        /\ \A k \in LookupsFor(s) :
              /\ hubLog[k].src = state.address.chainId
              /\ hubLog[k].dst = ChainIdOf(offers[s].offerArgs.chainName)
C35_Token ==
    \A s \in Addressed :
        calls[offers[s].transferCall].msg.token =
            [amount |-> String(offers[s].give.amt.value),
             denom |-> VBankDenom(offers[s].give.amt.brand)]

\* C35: the transfer issued by sendIt is addressed to the offer's destination:
\* the receiver of the resulting MsgTransfer equals offerArgs.destAddr, the
\* connection is looked up for the chainId of the chain named by
\* offerArgs.chainName, and the token is the vbank denom of the given brand
\* with the given amount's value.
C35_AddressedToDestination == C35_Receiver /\ C35_Connection /\ C35_Token

\* --------------------------------------------------- the keys of addChain
AddIds == 1..Len(adds)
\* The addChain calls whose lookup of the agoric chain info rejected.
LookupRejected(a) == IsRejected(adds[a].result) /\ adds[a].result.reason \in HubErrors
\* The calls that settle in this step.
Settling == {a \in AddIds : adds[a].pc = "getChainInfo" /\ adds'[a].pc = "done"}

C36_DistinctKeys ==
    /\ nonce = Len(adds)
    /\ \A a, b \in AddIds :
          a # b => /\ adds[a].chainKey # adds[b].chainKey
                   /\ IsFulfilled(adds[a].result) => adds[a].result # adds[b].result
    /\ \A a \in AddIds : IsFulfilled(adds[a].result) => adds[a].result.value = adds[a].chainKey
C36_OnlyAfterLookup ==
    \A c \in chainHub.chains :
        \E a \in AddIds : /\ adds[a].chainKey = c.chainKey
                          /\ adds[a].chainInfo = c.chainInfo
                          /\ adds[a].pc = "done"
                          /\ ~ LookupRejected(a)
C36_Registers ==
    \A a \in Settling :
        /\ IsFulfilled(adds'[a].result) =>
              /\ [chainKey |-> adds[a].chainKey, chainInfo |-> adds[a].chainInfo]
                     \in chainHub'.chains
              /\ ConnectionOf(a, LocalChainInfo) \in chainHub'.connections
        /\ (IsRejected(adds'[a].result) /\ adds'[a].result.reason \in HubErrors) =>
              chainHub' = chainHub
C36_NonceFirst ==
    Len(adds') > Len(adds) =>
        /\ nonce' = nonce + 1
        /\ adds'[Len(adds')].pc = "getChainInfo"
        /\ chainHub' = chainHub

\* C36: within one contract incarnation every addChain call returns a chainKey
\* distinct from the keys of all other addChain calls, also for calls with the
\* same chainId and for calls that overlap (the nonce is incremented before
\* the call first suspends); on success the chain is registered under that
\* key together with the connection between the agoric chain id and
\* chainInfo.chainId, and if the agoric chain info lookup rejects nothing is
\* registered.
C36_KeysAreDistinct ==
    /\ [](C36_DistinctKeys /\ C36_OnlyAfterLookup)
    /\ [][C36_Registers /\ C36_NonceFirst]_vars

\* Two overlapping calls with one chainId: the later one has returned its key
\* while the earlier one still waits, and a third call's lookup has rejected.
C36_Witness ==
    \E a, b, c \in AddIds :
        /\ a < b
        /\ adds[a].chainInfo = adds[b].chainInfo
        /\ adds[a].pc = "getChainInfo"
        /\ IsFulfilled(adds[b].result)
        /\ adds[b].result.value # adds[a].chainKey
        /\ LookupRejected(c)
        /\ Cardinality(chainHub.chains) = 1

====
